---- MODULE Spec2Model ----
(***************************************************************************)
(* Model of the agent workflow of agentic-sensor-analytics:                *)
(* AgentExecutor.execute (src/agent/graph.py) driving the six graph nodes  *)
(* of AgentNodes (src/agent/nodes.py) over an AgentState                   *)
(* (src/agent/state.py).  The collaborators the nodes call (the LLM        *)
(* interface, the data bridge, the analytics tool) are modelled by the     *)
(* outcomes their calls can have: a returned value or a raised exception   *)
(* of one of the classes the node's handlers distinguish.                  *)
(*                                                                         *)
(* Strings built with f-strings are modelled as the sequence of their      *)
(* fragments, so "prefix: {e}" is <<"prefix: ", e>>.                       *)
(***************************************************************************)
EXTENDS Integers, Sequences, FiniteSets, TLC

\* ---------------------------------------------------------------- bounds
\* longest error list the validator returns
MaxErrors == 2
\* most rows the data collaborator returns
MaxRows == 2

\* ---------------------------------------------------------------- values
\* Python None for the optional fields of AgentState
None == [kind |-> "None"]

\* None for an optional string (AnalyticsResult.error_message, unit)
NoneStr == "<None>"

Queries == {"What was the average temperature in Node 15 yesterday?",
            "What was the temperature in Node 100 yesterday?"}

\* ---------------------------------------------------------- JSON values
\* values json.loads produces for the members of an object; Absent is a
\* key that is not in the dict, DateTime what _parse_datetime returns
JStr(s) == [j |-> "str", s |-> s]
JNum(n) == [j |-> "num", n |-> n]
JList(l) == [j |-> "list", l |-> l]
JNull == [j |-> "null"]
Absent == [j |-> "absent"]
DateTime(t) == [j |-> "datetime", t |-> t]

\* Operation enum of the task specification
Operations == {"mean", "max", "min", "sum", "std", "count"}

\* AggregationLevel enum, or absent
AggregationLevels == {NoneStr, "daily"}

\* task specifications the LLM may extract
TaskSpecs == [sensor_type : {"temperature", "energy"},
              location : {JStr("Node 15"), JStr("Node 100")},
              start_time : {1},
              end_time : {2, 4},
              operation : Operations,
              aggregation_level : AggregationLevels]

\* the system context bridge.get_system_context hands to the LLM: sorted
\* sensor types and locations of the catalog and the available time range
SystemContext == [available_sensors |-> <<"temperature">>,
                  available_locations |-> <<"Node 15">>,
                  time_range |-> <<0, 3>>]

\* str(e) of the exceptions collaborators raise
Reasons == {"connection refused"}

\* strings the validator (bridge.validate_task) may return
ValidatorStrings == {<<"Unknown sensor type: temperature">>,
                     <<"Unknown location: Node 100">>}

\* values of a result column
RowValues == {1, 2}

\* texts the model may generate; strip() of a blank response is ""
LLMTexts == {"", "prose"}

\* error_message values an AnalyticsResult may carry
ToolMessages == {NoneStr, "", "Missing required columns: {'unit'}"}

\* all finite sequences over S of length at most n
RECURSIVE SeqsUpTo(_, _)
SeqsUpTo(S, n) ==
    IF n = 0 THEN {<<>>}
    ELSE LET shorter == SeqsUpTo(S, n - 1)
         IN  shorter \cup {Append(s, x) : s \in {t \in shorter : Len(t) = n - 1}, x \in S}

\* ------------------------------------------------------ JSON object
\* the JSON object of a response the prompt asks for; confidence is in
\* hundredths
BaseMembers ==
    [intent_type |-> JStr("query"),
     sensor_type |-> JStr("temperature"),
     location |-> JStr("Node 15"),
     start_time |-> JStr("2024-01-01T00:00:00"),
     end_time |-> JStr("2024-01-02T00:00:00"),
     operation |-> JStr("mean"),
     aggregation_level |-> JNull,
     confidence |-> JNum(90)]

\* ------------------------------------------------------- catalog values
\* names and locations are sequences of characters, so that lower(),
\* split('_') and the substring test are computed, not tabulated
Name_150_1 == <<"1", "5", "0", "_", "1">>
Name_15_2 == <<"1", "5", "_", "2">>
Name_empty == <<>>
node_15 == <<"n", "o", "d", "e", " ", "1", "5">>
Node_150 == <<"N", "o", "d", "e", " ", "1", "5", "0">>

\* NodeMetadata as list_nodes builds it: location is the name
NodeMetadata(node_id, name) == [node_id |-> node_id, name |-> name, location |-> name]

\* SensorMetadata as list_sensors builds it: location falls back to the
\* sensor name, sensor_type is the lower-cased type name
SensorMetadata(sensor_id, sensor_type, node_id) ==
    [sensor_id |-> sensor_id, sensor_type |-> sensor_type, node_id |-> node_id,
     location |-> <<"s">>]

\* a list the repository caches, as opposed to None
List(items) == [kind |-> "list", items |-> items]

\* failures of an upstream call: SMTAPIError from _make_request, or another
\* exception raised while the response is parsed (ET.ParseError, ValueError)
UpstreamErrors == {"SMTAPIError", "ParseError"}

Raised(e) == [kind |-> "raised", exc |-> e]

\* node lists the API may hold: a node whose location only contains the
\* requested one registered before the node that equals it; no node; a
\* node without a name
NodeLists ==
    {<<NodeMetadata(1, Name_150_1), NodeMetadata(2, Name_15_2)>>,
     <<>>,
     <<NodeMetadata(3, Name_empty), NodeMetadata(2, Name_15_2)>>}

\* the sensors attached to each node
SensorsOf(node_id) ==
    CASE node_id = 1 -> <<SensorMetadata(11, "air temperature", 1)>>
      [] node_id = 2 -> <<SensorMetadata(21, "temperature", 2), SensorMetadata(22, "rh", 2)>>
      [] OTHER -> <<SensorMetadata(31, "unknown", 3)>>

NodeIds == {1, 2, 3}

\* states of the upstream API: the answer to listNode and, per node, the
\* answer to listSensor; it does not change while the catalog is used
Upstreams ==
    {[nodes |-> Raised("SMTAPIError"), sensors |-> [n \in NodeIds |-> List(SensorsOf(n))]]}
    \cup {[nodes |-> List(l), sensors |-> [n \in NodeIds |-> List(SensorsOf(n))]] :
             l \in NodeLists}
    \cup {[nodes |-> List(<<NodeMetadata(1, Name_150_1), NodeMetadata(2, Name_15_2)>>),
            sensors |-> [n \in NodeIds |->
                            IF n \in DOMAIN f /\ f[n] # "ok"
                            THEN Raised(f[n]) ELSE List(SensorsOf(n))]] :
             f \in [{1, 2} -> {"ok"} \cup UpstreamErrors]}

\* the upstream of the workflow and parser specifications
BaseUpstream ==
    [nodes |-> List(<<NodeMetadata(1, Name_150_1), NodeMetadata(2, Name_15_2)>>),
     sensors |-> [n \in NodeIds |-> List(SensorsOf(n))]]

\* the callers of the repository: two workflow runs sharing it
Callers == {"run1", "run2"}

\* requests to _find_sensor: the location is matched case-insensitively;
\* the second is a location as get_available_locations returns it
FindRequests == {[sensor_type |-> "temperature", location |-> node_15],
                 [sensor_type |-> "humidity", location |-> Node_150]}

\* a caller that is not inside the repository. fetched, nodes, sensors, i
\* and got_sensors are the locals of _get_all_nodes and _get_all_sensors;
\* the last five fields are history: the cache slots at the time of the
\* call, the upstream calls made, and a clear_cache by another caller
IdleCall ==
    [op |-> "none", arg |-> None, pc |-> "idle", ret |-> "derive",
     fetched |-> None, nodes |-> None, sensors |-> <<>>, i |-> 1,
     got_sensors |-> None, result |-> None,
     nodes_cached_at_call |-> FALSE, sensors_cached_at_call |-> FALSE,
     listed_nodes |-> FALSE, listed_sensors |-> FALSE, cleared_during |-> FALSE]

\* ---------------------------------------------------------------- state
\* -------------------------------------------------------- client values
\* max_retries of a client built without the argument
DefaultMaxRetries == 3

\* the largest max_retries a configuration file gives the client
MaxRetries == 2

\* the calls on an SMTAPIClient; the last three send a data request
ClientOps == {"login", "logout", "list_nodes", "list_sensors", "get_sensor_data"}
DataOps == {"list_nodes", "list_sensors", "get_sensor_data"}

\* what one HTTP attempt of a call can meet: a requests.RequestException
\* (no connection, timeout, error status), a body that is not XML, an XML
\* document with an error element, or a document without one. For login and
\* logout the document says success or not, and for login it holds a
\* PHPSESSID element or none (NoneStr)
Responses(op) ==
    {[kind |-> k, result |-> "none", session |-> NoneStr] :
        k \in {"transport", "malformed", "api_error"}}
    \cup CASE op = "login" ->
                  {[kind |-> "ok", result |-> r, session |-> sid] :
                      r \in {"success", "failure"}, sid \in {"sid", NoneStr}}
           [] op = "logout" ->
                  {[kind |-> "ok", result |-> r, session |-> NoneStr] :
                      r \in {"success", "failure"}}
           [] OTHER -> {[kind |-> "ok", result |-> "rows", session |-> NoneStr]}

\* no call in progress: log holds the responses of the attempts made, made
\* is what _make_request returned or raised, unauthenticated_send tells
\* whether an attempt was sent while authenticated was false
IdleRequest == [op |-> "none", pc |-> "idle", i |-> 0, log |-> <<>>,
                made |-> None, result |-> None, unauthenticated_send |-> FALSE]

VARIABLES
    pc,                 \* position of the call: idle, a node name, END or raised
    authenticated,      \* repository.api_client.authenticated
    user_query,
    task_spec,
    validation_errors,
    data,
    analytics_result,
    explanation,
    error_explanation,
    execution_trace,
    success,
    end_time,           \* TRUE once end_time is set
    collab,             \* history: outcome of each collaborator call of this run
    parser_pc,          \* position of a TaskSpecificationParser.parse call
    llm_output,         \* the raw text handed to parse, a sequence of tokens
    members,            \* the key/value pairs the token "members" stands for
    parse_result,       \* what parse returned or raised
    upstream,           \* what the API answers to listNode and listSensor
    nodes_cache,        \* SensorDataRepository._nodes_cache
    sensors_cache,      \* SensorDataRepository._sensors_cache
    calls,              \* per caller: the repository call in progress
    checked,            \* the specification and catalog handed to the validators
    location_errors,    \* history: what each validate_parameters call returned
    task_errors,        \* what LLMDataBridge.validate_task returned
    context_errors,     \* what validate_against_context returned
    tool_args,          \* the data and keyword arguments of a tool.execute call
    tool_result,        \* what the call returned or raised
    session_id,         \* SMTAPIClient.session_id
    max_retries,        \* SMTAPIClient.max_retries
    request             \* the client call in progress and what it has sent and received

workflow_vars == <<pc, authenticated, user_query, task_spec, validation_errors, data,
                   analytics_result, explanation, error_explanation, execution_trace,
                   success, end_time, collab>>

parser_vars == <<parser_pc, llm_output, members, parse_result>>

catalog_vars == <<upstream, nodes_cache, sensors_cache, calls>>

validator_vars == <<checked, location_errors, task_errors, context_errors>>

tool_vars == <<tool_args, tool_result>>

client_vars == <<session_id, max_retries, request>>

vars == <<workflow_vars, parser_vars, catalog_vars, validator_vars, tool_vars, client_vars>>

CollabNames == {"generate_intent", "extract_intent", "validate_task", "execute_task", "tool",
                "explain_results", "explain_error"}

NotCalled == [r |-> "not_called"]

\* Python truthiness of an optional text
Truthy(x) == x # None /\ ~(x.kind = "text" /\ x.text = "")

\* one ExecutionTrace entry; duration is TRUE when duration_ms is given
add_trace_entry(trace, step, status, duration) ==
    Append(trace, [step |-> step, status |-> status, duration |-> duration])

\* ---------------------------------------------------------------- routing
\* should_continue that never routes to handle_error
should_continue_always(errors) == "retrieve_data"

\* should_continue with its test inverted
should_continue_inverted(errors) ==
    IF errors = <<>> THEN "handle_error" ELSE "retrieve_data"

should_continue(errors) ==
    IF errors # <<>> THEN "handle_error" ELSE "retrieve_data"

\* should_continue_after_retrieval that lets a failed retrieval through
should_continue_after_retrieval_lax(errors, d) ==
    IF errors = <<>> /\ d = None THEN "handle_error" ELSE "execute_analytics"

should_continue_after_retrieval(errors, d) ==
    IF errors # <<>> THEN "handle_error"
    ELSE IF d = None THEN "handle_error"
    ELSE "execute_analytics"

\* should_continue_after_analytics that runs the tool again after a failure
should_continue_after_analytics_retry(errors, result) ==
    IF errors # <<>> THEN "execute_analytics"
    ELSE IF result = None THEN "handle_error"
    ELSE "generate_explanation"

\* should_continue_after_analytics with its result test inverted
should_continue_after_analytics_inverted(errors, result) ==
    IF errors # <<>> THEN "handle_error"
    ELSE IF result # None THEN "handle_error"
    ELSE "generate_explanation"

should_continue_after_analytics(errors, result) ==
    IF errors # <<>> THEN "handle_error"
    ELSE IF result = None THEN "handle_error"
    ELSE "generate_explanation"

\* interpret_query wired back to itself
interpret_query_edge_again == "interpret_query"

\* interpret_query wired past validation
interpret_query_edge_skip == "retrieve_data"

\* workflow.add_edge("interpret_query", "validate_task")
interpret_query_edge == "validate_task"

\* workflow.add_edge("generate_explanation", END)
generate_explanation_edge == "END"

\* handle_error wired back into the success path
handle_error_edge_loop == "generate_explanation"

\* workflow.add_edge("handle_error", END)
handle_error_edge == "END"

\* ---------------------------------------------------------------- execute
\* AgentExecutor.execute up to graph.invoke: create_initial_state, then
\* connect the repository when it is not authenticated; login may raise.
execute ==
    /\ pc \in {"idle", "END", "raised"}
    /\ \E q \in Queries, login_ok \in BOOLEAN :
        /\ user_query' = q
        /\ task_spec' = None
        /\ validation_errors' = <<>>
        /\ data' = None
        /\ analytics_result' = None
        /\ explanation' = None
        /\ error_explanation' = None
        /\ execution_trace' = <<>>
        /\ success' = FALSE
        /\ end_time' = FALSE
        /\ collab' = [c \in CollabNames |-> NotCalled]
        /\ IF authenticated
           THEN /\ pc' = "interpret_query"
                /\ UNCHANGED authenticated
           ELSE IF login_ok
           THEN /\ authenticated' = TRUE
                /\ pc' = "interpret_query"
           ELSE /\ UNCHANGED authenticated
                /\ pc' = "raised"
    /\ UNCHANGED <<parser_vars, catalog_vars, validator_vars, tool_vars, client_vars>>

Init ==
    /\ pc = "idle"
    /\ authenticated = FALSE
    /\ user_query = "What was the average temperature in Node 15 yesterday?"
    /\ task_spec = None
    /\ validation_errors = <<>>
    /\ data = None
    /\ analytics_result = None
    /\ explanation = None
    /\ error_explanation = None
    /\ execution_trace = <<>>
    /\ success = FALSE
    /\ end_time = FALSE
    /\ collab = [c \in CollabNames |-> NotCalled]
    /\ parser_pc = "idle"
    /\ llm_output = <<>>
    /\ members = BaseMembers
    /\ parse_result = None
    /\ upstream = BaseUpstream
    /\ nodes_cache = None
    /\ sensors_cache = None
    /\ calls = [t \in Callers |-> IdleCall]
    /\ checked = None
    /\ location_errors = None
    /\ task_errors = None
    /\ context_errors = None
    /\ tool_args = None
    /\ tool_result = None
    /\ session_id = NoneStr
    /\ max_retries = DefaultMaxRetries
    /\ request = IdleRequest

\* ---------------------------------------------------------------- nodes
\* x in list
InSeq(x, list) == \E i \in DOMAIN list : list[i] = x

\* TaskSpecification.get_locations_list: a location string as a list of one,
\* a list of locations as it is
get_locations_list(spec) ==
    IF spec.location.j = "str" THEN <<spec.location.s>> ELSE spec.location.l

\* TaskSpecificationParser.validate_against_context
validate_against_context(spec, available_sensors, available_locations, time_range) ==
    LET invalid_locations ==
            SelectSeq(get_locations_list(spec),
                      LAMBDA loc : ~InSeq(loc, available_locations))
        e1 == IF ~InSeq(spec.sensor_type, available_sensors)
              THEN <<[text |-> "Unknown sensor type", value |-> spec.sensor_type,
                      available |-> available_sensors]>>
              ELSE <<>>
        e2 == IF invalid_locations # <<>>
              THEN <<[text |-> "Unknown location(s)", value |-> invalid_locations,
                      available |-> SubSeq(available_locations, 1,
                          IF Len(available_locations) < 5
                          THEN Len(available_locations) ELSE 5)]>>
              ELSE <<>>
        e3 == IF spec.start_time < time_range[1]
              THEN <<[text |-> "Start time is before available data",
                      value |-> spec.start_time, available |-> time_range[1]]>>
              ELSE <<>>
        e4 == IF spec.end_time > time_range[2]
              THEN <<[text |-> "End time is after available data",
                      value |-> spec.end_time, available |-> time_range[2]]>>
              ELSE <<>>
        e5 == IF spec.end_time <= spec.start_time
              THEN <<[text |-> "End time must be after start time."]>>
              ELSE <<>>
    IN  e1 \o e2 \o e3 \o e4 \o e5

\* what happens inside interpret_query before extract_intent decides:
\* get_system_context raises, the model fails to generate, its output does
\* not parse, or it parses to a specification whose confidence is or is
\* not below min_confidence
IntentGenerations ==
    {[g |-> "context_error", e |-> e] : e \in Reasons}
    \cup {[g |-> "generation_error", e |-> e] : e \in Reasons}
    \cup {[g |-> "parse_error", e |-> e] : e \in Reasons}
    \cup {[g |-> "parsed", spec |-> s, confident |-> c] : s \in TaskSpecs, c \in BOOLEAN}

\* OllamaLLM.extract_intent (after bridge.get_system_context): the outcome
\* interpret_query sees
extract_intent(g, context) ==
    CASE g.g = "context_error" -> [r |-> "exception", e |-> g.e]
      [] g.g = "generation_error" -> [r |-> "llm_error", e |-> g.e]
      [] g.g = "parse_error" -> [r |-> "llm_error", e |-> g.e]
      [] g.g = "parsed" /\ ~g.confident ->
             [r |-> "llm_error", e |-> "Low confidence extraction"]
      [] g.g = "parsed" /\ g.confident
            /\ validate_against_context(g.spec, context.available_sensors,
                   context.available_locations, context.time_range) # <<>> ->
             \* raise LLMParseError(self.explain_error(user_query, errors))
             [r |-> "llm_error", e |-> "explanation of the context errors"]
      [] OTHER -> [r |-> "returned", spec |-> g.spec]

\* outcomes of bridge.get_system_context followed by llm.extract_intent:
\* a task specification, an LLMError, or any other exception
InterpretOutcomes == {extract_intent(g, SystemContext) : g \in IntentGenerations}

\* the error list interpret_query records for a failed outcome
InterpretErrors(o) ==
    IF o.r = "llm_error"
    THEN << <<"Failed to understand query: ", o.e>> >>
    ELSE << <<"Unexpected error during query interpretation: ", o.e>> >>

\* Node 1
interpret_query ==
    /\ pc = "interpret_query"
    /\ \E g \in IntentGenerations :
        LET started == add_trace_entry(execution_trace, "interpret_query", "started", FALSE)
            o == extract_intent(g, SystemContext)
        IN  /\ collab' = [collab EXCEPT !["generate_intent"] = g, !["extract_intent"] = o]
            /\ IF o.r = "returned"
               THEN /\ task_spec' = o.spec
                    /\ execution_trace' =
                         add_trace_entry(started, "interpret_query", "completed", TRUE)
                    /\ UNCHANGED <<validation_errors, success>>
               ELSE /\ execution_trace' =
                         add_trace_entry(started, "interpret_query", "failed", TRUE)
                    /\ validation_errors' = InterpretErrors(o)
                    /\ success' = FALSE
                    /\ UNCHANGED task_spec
    /\ pc' = interpret_query_edge
    /\ UNCHANGED <<authenticated, user_query, data, analytics_result,
                   explanation, error_explanation, end_time>>
    /\ UNCHANGED <<parser_vars, catalog_vars, validator_vars, tool_vars, client_vars>>

\* outcomes of bridge.validate_task: a list of error strings or an exception
ValidatorOutcomes ==
    {[r |-> "returned", errors |-> es] : es \in SeqsUpTo(ValidatorStrings, MaxErrors)}
    \cup {[r |-> "exception", e |-> e] : e \in Reasons}

\* validate_task returning without its exit entry
validate_task_missing_silent(started) == started

\* the exit entry of validate_task's missing-task-specification path
validate_task_missing(started) ==
    add_trace_entry(started, "validate_task", "failed", FALSE)

\* Node 2
validate_task ==
    /\ pc = "validate_task"
    /\ LET started == add_trace_entry(execution_trace, "validate_task", "started", FALSE)
       IN  IF task_spec = None
           THEN /\ validation_errors' = << <<"No task specification to validate">> >>
                /\ execution_trace' = validate_task_missing(started)
                /\ UNCHANGED collab
           ELSE \E o \in ValidatorOutcomes :
                /\ collab' = [collab EXCEPT !["validate_task"] = o]
                /\ IF o.r = "returned"
                   THEN /\ validation_errors' = o.errors
                        /\ execution_trace' =
                             add_trace_entry(started, "validate_task",
                                 IF o.errors # <<>> THEN "failed" ELSE "completed", TRUE)
                   ELSE /\ execution_trace' =
                             add_trace_entry(started, "validate_task", "failed", TRUE)
                        /\ validation_errors' = << <<"Validation error: ", o.e>> >>
    /\ pc' = should_continue(validation_errors')
    /\ UNCHANGED <<authenticated, user_query, task_spec, data, analytics_result,
                   explanation, error_explanation, success, end_time>>
    /\ UNCHANGED <<parser_vars, catalog_vars, validator_vars, tool_vars, client_vars>>

\* outcomes of bridge.execute_task: a DataFrame (its value column), a
\* RepositoryError, or any other exception
RetrievalOutcomes ==
    {[r |-> "returned", rows |-> rs] : rs \in SeqsUpTo(RowValues, MaxRows)}
    \cup {[r |-> "repository_error", e |-> e] : e \in Reasons}
    \cup {[r |-> "exception", e |-> e] : e \in Reasons}

\* Node 3
retrieve_data ==
    /\ pc = "retrieve_data"
    /\ LET started == add_trace_entry(execution_trace, "retrieve_data", "started", FALSE)
           failed == add_trace_entry(started, "retrieve_data", "failed", TRUE)
       IN  IF task_spec = None
           THEN \* raise ValueError, caught by except Exception
                /\ execution_trace' = failed
                /\ validation_errors' =
                     << <<"Unexpected error during data retrieval: ",
                          "No task specification available">> >>
                /\ UNCHANGED <<data, collab>>
           ELSE \E o \in RetrievalOutcomes :
                /\ collab' = [collab EXCEPT !["execute_task"] = o]
                /\ execution_trace' =
                     IF o.r = "returned" /\ o.rows # <<>>
                     THEN add_trace_entry(started, "retrieve_data", "completed", TRUE)
                     ELSE failed
                /\ CASE o.r = "returned" /\ o.rows = <<>> ->
                          /\ validation_errors' =
                               << <<"No data found for ", task_spec.sensor_type,
                                    " in ", task_spec.location>> >>
                          /\ UNCHANGED data
                     [] o.r = "returned" /\ o.rows # <<>> ->
                          /\ data' = [rows |-> o.rows]
                          /\ UNCHANGED validation_errors
                     [] o.r = "repository_error" ->
                          /\ validation_errors' = << <<"Data retrieval failed: ", o.e>> >>
                          /\ UNCHANGED data
                     [] o.r = "exception" ->
                          /\ validation_errors' =
                               << <<"Unexpected error during data retrieval: ", o.e>> >>
                          /\ UNCHANGED data
    /\ pc' = should_continue_after_retrieval(validation_errors', data')
    /\ UNCHANGED <<authenticated, user_query, task_spec, analytics_result,
                   explanation, error_explanation, success, end_time>>
    /\ UNCHANGED <<parser_vars, catalog_vars, validator_vars, tool_vars, client_vars>>

\* ToolRegistry.get_tool_by_operation: the tool name, or NoneStr for no tool
get_tool_by_operation(operation) ==
    CASE operation = "mean" -> "temporal_mean"
      [] operation = "max" -> "temporal_mean"
      [] operation = "min" -> "temporal_mean"
      [] operation = "aggregation" -> "temporal_aggregation"
      [] operation = "comparison" -> "spatial_comparison"
      [] operation = "summary" -> "statistical_summary"
      [] OTHER -> NoneStr

\* units a result may carry
Units == {"C", NoneStr}

\* outcomes of tool.execute: an AnalyticsResult (as model_dump gives it) or
\* an exception
ToolOutcomes ==
    {[r |-> "returned", success |-> TRUE, value |-> v, unit |-> u,
      error_message |-> NoneStr] : v \in RowValues, u \in Units}
    \cup {[r |-> "returned", success |-> FALSE, value |-> NoneStr, unit |-> NoneStr,
           error_message |-> m] : m \in ToolMessages}
    \cup {[r |-> "exception", e |-> e] : e \in Reasons}

\* the tool's message dropped in favour of the default
ToolErrorMsg_default(m) == "Analytics execution failed"

\* result.error_message or "Analytics execution failed"
ToolErrorMsg(m) ==
    IF m # NoneStr /\ m # "" THEN m ELSE "Analytics execution failed"

\* Node 4
execute_analytics ==
    /\ pc = "execute_analytics"
    /\ LET started == add_trace_entry(execution_trace, "execute_analytics", "started", FALSE)
           failed == add_trace_entry(started, "execute_analytics", "failed", TRUE)
           raised(msg) ==
               /\ execution_trace' = failed
               /\ validation_errors' = << <<"Analytics execution error: ">> \o msg >>
               /\ UNCHANGED analytics_result
       IN  IF data = None
           THEN raised(<<"No data available for analytics">>) /\ UNCHANGED collab
           ELSE IF task_spec = None
           THEN raised(<<"No task specification available">>) /\ UNCHANGED collab
           ELSE IF get_tool_by_operation(task_spec.operation) = NoneStr
           THEN /\ raised(<<"No tool found for operation: ", task_spec.operation>>)
                /\ collab' = [collab EXCEPT !["tool"] = [r |-> "no_tool"]]
           ELSE \E o \in ToolOutcomes :
                /\ collab' = [collab EXCEPT !["tool"] = o]
                /\ CASE o.r = "exception" -> raised(<<o.e>>)
                     [] o.r = "returned" /\ ~o.success ->
                          /\ validation_errors' = << <<ToolErrorMsg(o.error_message)>> >>
                          /\ execution_trace' = failed
                          /\ UNCHANGED analytics_result
                     [] o.r = "returned" /\ o.success ->
                          /\ analytics_result' = [value |-> o.value, unit |-> o.unit,
                                                  success |-> o.success,
                                                  error_message |-> o.error_message]
                          /\ execution_trace' =
                               add_trace_entry(started, "execute_analytics", "completed", TRUE)
                          /\ UNCHANGED validation_errors
    /\ pc' = should_continue_after_analytics(validation_errors', analytics_result')
    /\ UNCHANGED <<authenticated, user_query, task_spec, data,
                   explanation, error_explanation, success, end_time>>
    /\ UNCHANGED <<parser_vars, catalog_vars, validator_vars, tool_vars, client_vars>>

\* outcomes of llm.explain_results and llm.explain_error: a text (possibly
\* empty), an LLMError, or any other exception
ExplainOutcomes ==
    {[r |-> "returned", text |-> t] : t \in LLMTexts}
    \cup {[r |-> "llm_error", e |-> e] : e \in Reasons}
    \cup {[r |-> "exception", e |-> e] : e \in Reasons}

\* f"Result: {analytics_result.get('value')} {analytics_result.get('unit', '')}"
ResultTemplate(result) ==
    [kind |-> "template", prefix |-> "Result: ", value |-> result.value, unit |-> result.unit]

\* the generic handler failing the run
HasAnalyticsResult_never(result) == FALSE

\* the generic handler's test: if state.get('analytics_result')
HasAnalyticsResult(result) == result # None

\* Node 5
generate_explanation ==
    /\ pc = "generate_explanation"
    /\ LET started == add_trace_entry(execution_trace, "generate_explanation", "started", FALSE)
           failed == add_trace_entry(started, "generate_explanation", "failed", TRUE)
           generic ==
               /\ execution_trace' = failed
               /\ IF HasAnalyticsResult(analytics_result)
                  THEN /\ explanation' = ResultTemplate(analytics_result)
                       /\ success' = TRUE
                  ELSE /\ success' = FALSE
                       /\ UNCHANGED explanation
       IN  IF analytics_result = None
           THEN \* raise ValueError("No analytics result to explain")
                generic /\ UNCHANGED collab
           ELSE \E o \in ExplainOutcomes :
                /\ collab' = [collab EXCEPT !["explain_results"] = o]
                /\ CASE o.r = "returned" ->
                          /\ explanation' = [kind |-> "text", text |-> o.text]
                          /\ success' = TRUE
                          /\ execution_trace' =
                               add_trace_entry(started, "generate_explanation", "completed", TRUE)
                     [] o.r = "llm_error" ->
                          /\ execution_trace' = failed
                          /\ explanation' = ResultTemplate(analytics_result)
                          /\ success' = TRUE
                     [] o.r = "exception" -> generic
    /\ end_time' = TRUE
    /\ pc' = generate_explanation_edge
    /\ UNCHANGED <<authenticated, user_query, task_spec, validation_errors, data,
                   analytics_result, error_explanation>>
    /\ UNCHANGED <<parser_vars, catalog_vars, validator_vars, tool_vars, client_vars>>

\* "I encountered some issues with your query:\n" + one bullet per error
BulletList(errors) ==
    [kind |-> "bullets", header |-> "I encountered some issues with your query:",
     items |-> errors]

\* "An error occurred processing your query."
FixedSentence == [kind |-> "fixed", text |-> "An error occurred processing your query."]

\* handle_error whose handlers leave error_explanation unset
ErrorExplanation_unset(o, errors) ==
    CASE o.r = "returned" -> [kind |-> "text", text |-> o.text]
      [] OTHER -> None

\* handle_error without its LLMError handler
ErrorExplanation_nofallback(o, errors) ==
    CASE o.r = "returned" -> [kind |-> "text", text |-> o.text]
      [] OTHER -> FixedSentence

\* error_explanation for each outcome of llm.explain_error(user_query, errors):
\* the text, the bullet list on LLMError, the fixed sentence on anything else
ErrorExplanation(o, errors) ==
    CASE o.r = "returned" -> [kind |-> "text", text |-> o.text]
      [] o.r = "llm_error" -> BulletList(errors)
      [] OTHER -> FixedSentence

\* Node 6
handle_error ==
    /\ pc = "handle_error"
    /\ LET started == add_trace_entry(execution_trace, "handle_error", "started", FALSE)
           errors == IF validation_errors = <<>>
                     THEN << <<"An unknown error occurred">> >>
                     ELSE validation_errors
       IN  \E o \in ExplainOutcomes :
            /\ collab' = [collab EXCEPT !["explain_error"] =
                              [r |-> o.r, errors |-> errors]]
            /\ error_explanation' = ErrorExplanation(o, errors)
            /\ execution_trace' =
                 add_trace_entry(started, "handle_error",
                     IF o.r = "exception" THEN "failed" ELSE "completed", TRUE)
    /\ success' = FALSE
    /\ end_time' = TRUE
    /\ pc' = handle_error_edge
    /\ UNCHANGED <<authenticated, user_query, task_spec, validation_errors, data,
                   analytics_result, explanation>>
    /\ UNCHANGED <<parser_vars, catalog_vars, validator_vars, tool_vars, client_vars>>

Next ==
    \/ execute
    \/ interpret_query
    \/ validate_task
    \/ retrieve_data
    \/ execute_analytics
    \/ generate_explanation
    \/ handle_error

Spec == Init /\ [][Next]_vars

\* ------------------------------------------- TaskSpecificationParser.parse
\* longest raw text enumerated token by token
MaxTextLen == 4

\* a raw text is a sequence of tokens: braces, "<fence>" for the three
\* backticks of a code fence, a line break
\* (whitespace), "x" for any other character run, and "members" for the
\* key/value pairs of a JSON object
TextTokens == {"{", "}", "x", "members", "<fence>", "\n"}

\* a JSON object alone, and the same inside a json code fence
PlainOutput == <<"{", "members", "}">>
FencedOutput == <<"<fence>", "x", "\n", "{", "members", "}", "\n", "<fence>">>

\* decoded payloads: the fields whose rules interact vary together, the
\* others one at a time
JsonIntents == {JStr("query"), JStr("comparison"), JStr("aggregation"),
                JStr("Compare"), JStr("lookup"), JNull}
JsonLocations == {JStr("Node 15"), JList(<<"Node 15">>), JList(<<"Node 15", "Node 16">>)}
JsonOperations == {JStr("mean"), JStr("avg"), JStr("average"), JStr(" AVG "), JStr("median")}
JsonAggregationLevels ==
    {Absent, JNull, JStr(""), JStr(" "), JStr("none"), JStr("null"), JStr("n/a"),
     JStr("na"), JStr("daily"), JStr("day"), JStr("monthly")}
JsonTimes == {JStr("2024-01-01T00:00:00"), JStr("2024-01-02T00:00:00"),
              JStr("soon"), JNull, Absent}
JsonConfidences == {Absent, JNull, JStr("high"), JNum(-10), JNum(0), JNum(100), JNum(150)}
JsonSensors == {JStr("temperature"), JStr("temp"), JNum(0), Absent}

Payloads ==
    {[BaseMembers EXCEPT !.intent_type = i, !.location = l,
                         !.operation = o, !.aggregation_level = a] :
        i \in JsonIntents, l \in JsonLocations,
        o \in JsonOperations, a \in JsonAggregationLevels}
    \cup {[BaseMembers EXCEPT !.start_time = t1, !.end_time = t2] :
            t1 \in JsonTimes, t2 \in JsonTimes}
    \cup {[BaseMembers EXCEPT !.confidence = c] : c \in JsonConfidences}
    \cup {[BaseMembers EXCEPT !.sensor_type = x] : x \in JsonSensors}

\* what the model may answer: any short text, or a JSON object, bare or
\* fenced, with any of the payloads
Generations ==
    {[text |-> t, members |-> BaseMembers] : t \in SeqsUpTo(TextTokens, MaxTextLen)}
    \cup {[text |-> t, members |-> m] : t \in {PlainOutput, FencedOutput}, m \in Payloads}

\* str.strip() on tokens: leading and trailing whitespace goes
RECURSIVE Strip(_)
Strip(text) ==
    IF text = <<>> THEN text
    ELSE IF Head(text) = "\n" THEN Strip(Tail(text))
    ELSE IF text[Len(text)] = "\n" THEN Strip(SubSeq(text, 1, Len(text) - 1))
    ELSE text

\* str.find and str.rfind: 0-based index of the first / last occurrence, -1
\* when there is none
Find(text, tok) ==
    IF \E i \in DOMAIN text : text[i] = tok
    THEN (CHOOSE i \in DOMAIN text :
              /\ text[i] = tok
              /\ \A k \in DOMAIN text : text[k] = tok => i <= k) - 1
    ELSE -1

RFind(text, tok) ==
    IF \E i \in DOMAIN text : text[i] = tok
    THEN (CHOOSE i \in DOMAIN text :
              /\ text[i] = tok
              /\ \A k \in DOMAIN text : text[k] = tok => k <= i) - 1
    ELSE -1

\* text[a:b] for 0 <= a: empty when b <= a
Slice(text, a, b) == SubSeq(text, a + 1, IF b < Len(text) THEN b ELSE Len(text))

\* TaskSpecificationParser._extract_json
extract_json(llm_output_text) ==
    LET stripped == Strip(llm_output_text)
        first_newline == Find(stripped, "\n")
        last_backticks == RFind(stripped, "<fence>")
        text == IF stripped # <<>> /\ Head(stripped) = "<fence>"
                   /\ first_newline # -1 /\ last_backticks # -1
                THEN Strip(Slice(stripped, first_newline + 1, last_backticks))
                ELSE stripped
        start_idx == Find(text, "{")
        end_idx == RFind(text, "}")
    IN  IF start_idx = -1 \/ end_idx = -1
        THEN [exc |-> "No JSON object found in LLM output"]
        ELSE [exc |-> NoneStr, json_str |-> Slice(text, start_idx, end_idx + 1)]

\* json.loads: whitespace between tokens is insignificant; the text is a
\* JSON value only if it is one object, empty or holding the members
json_loads(json_str, object_members) ==
    LET t == SelectSeq(json_str, LAMBDA tok : tok # "\n")
    IN  IF t = <<"{", "members", "}">> THEN [exc |-> NoneStr, data |-> object_members]
        ELSE IF t = <<"{", "}">>
        THEN [exc |-> NoneStr, data |-> [f \in DOMAIN object_members |-> Absent]]
        ELSE [exc |-> "JSONDecodeError"]

\* str.lower().strip() for the strings used here
LowerStrip(s) ==
    CASE s = "Compare" -> "compare"
      [] s = " AVG " -> "avg"
      [] s = " " -> ""
      [] OTHER -> s

\* intent_mapping.get(intent, intent)
intent_mapping(intent) ==
    CASE intent \in {"simple_query", "single_query", "temporal_query", "simple"} -> "query"
      [] intent \in {"compare", "comparison_query", "spatial_comparison"} -> "comparison"
      [] intent \in {"temporal_aggregation", "aggregate", "time_series"} -> "aggregation"
      [] OTHER -> intent

\* sensor_mapping.get(sensor, sensor)
sensor_mapping(sensor) ==
    CASE sensor = "temp" -> "temperature"
      [] sensor \in {"co2_concentration", "carbon_dioxide"} -> "co2"
      [] sensor = "power" -> "energy"
      [] sensor \in {"occupant", "people_count"} -> "occupancy"
      [] OTHER -> sensor

\* operation_mapping.get(op, op)
operation_mapping(op) ==
    CASE op \in {"average", "avg"} -> "mean"
      [] op = "maximum" -> "max"
      [] op = "minimum" -> "min"
      [] op = "total" -> "sum"
      [] op \in {"standard_deviation", "stddev"} -> "std"
      [] op \in {"num", "number", "cnt"} -> "count"
      [] OTHER -> op

\* agg_mapping.get(agg, agg)
agg_mapping(agg) ==
    CASE agg = "hour" -> "hourly"
      [] agg = "day" -> "daily"
      [] agg = "week" -> "weekly"
      [] OTHER -> agg

\* Python truth value of a decoded JSON value
JTruthy(v) ==
    CASE v.j = "str" -> v.s # ""
      [] v.j = "num" -> v.n # 0
      [] v.j = "list" -> v.l # <<>>
      [] OTHER -> FALSE

\* the aggregation_level branch of _normalize_data
normalize_aggregation_level(agg) ==
    IF agg.j # "absent" /\ JTruthy(agg) /\ agg.j = "str"
    THEN LET a == LowerStrip(agg.s)
         IN  IF a \in {"null", "none", "n/a", "", "na"}
             THEN JNull
             ELSE JStr(agg_mapping(a))
    ELSE agg

\* _parse_datetime: the instant a timestamp string denotes, in days, or the
\* LLMParseError for a string no parser accepts
parse_datetime(dt_str) ==
    CASE dt_str = "2024-01-01T00:00:00" -> [exc |-> NoneStr, dt |-> DateTime(1)]
      [] dt_str = "2024-01-02T00:00:00" -> [exc |-> NoneStr, dt |-> DateTime(2)]
      [] OTHER -> [exc |-> "Cannot parse datetime"]

\* float(confidence), 0.8 when that raises, 0.85 when the key is absent
normalize_confidence(c) ==
    CASE c.j = "absent" -> JNum(85)
      [] c.j = "num" -> c
      [] OTHER -> JNum(80)

\* TaskSpecificationParser._normalize_data: the normalized dict, or the
\* first exception one of its steps raises
normalize_data(dict) ==
    LET lowers(v) == v.j \in {"absent", "str"}
        lowered(v, mapping(_)) ==
            IF v.j = "str" THEN JStr(mapping(LowerStrip(v.s))) ELSE v
        time(v) == IF v.j = "str" THEN parse_datetime(v.s) ELSE [exc |-> NoneStr, dt |-> v]
        exc == CASE ~lowers(dict.intent_type) -> "AttributeError"
                 [] ~lowers(dict.sensor_type) -> "AttributeError"
                 [] ~lowers(dict.operation) -> "AttributeError"
                 [] time(dict.start_time).exc # NoneStr -> time(dict.start_time).exc
                 [] time(dict.end_time).exc # NoneStr -> time(dict.end_time).exc
                 [] OTHER -> NoneStr
    IN  IF exc # NoneStr THEN [exc |-> exc]
        ELSE [exc |-> NoneStr,
              data |-> [intent_type |-> lowered(dict.intent_type, intent_mapping),
                        sensor_type |-> lowered(dict.sensor_type, sensor_mapping),
                        location |-> dict.location,
                        start_time |-> time(dict.start_time).dt,
                        end_time |-> time(dict.end_time).dt,
                        operation |-> lowered(dict.operation, operation_mapping),
                        aggregation_level |->
                            normalize_aggregation_level(dict.aggregation_level),
                        confidence |-> normalize_confidence(dict.confidence)]]

\* IntentType and AggregationLevel enums
IntentTypes == {"query", "comparison", "aggregation"}
AggregationLevelValues == {"hourly", "daily", "weekly"}

\* end_after_start accepting an end_time equal to start_time
end_after_start_lax(v, start_time) == v.t < start_time.t

\* TaskSpecification.end_after_start: TRUE when the validator raises
end_after_start(v, start_time) == v.t <= start_time.t

\* TaskSpecification.model_validate: the field and validator errors of a
\* dict, and the specification built when there are none
model_validate(dict) ==
    LET enum(v, values) == v.j = "str" /\ v.s \in values
        field_errors ==
            {"intent_type" : x \in {1} \ {y \in {1} : enum(dict.intent_type, IntentTypes)}}
            \cup {"sensor_type" : x \in {1} \ {y \in {1} : dict.sensor_type.j = "str"}}
            \cup {"location" : x \in {1} \ {y \in {1} : dict.location.j \in {"str", "list"}}}
            \cup {"start_time" : x \in {1} \ {y \in {1} : dict.start_time.j = "datetime"}}
            \cup {"end_time" : x \in {1} \ {y \in {1} : dict.end_time.j = "datetime"}}
            \cup {"end_time must be after start_time" : x \in
                    {y \in {1} : /\ dict.end_time.j = "datetime"
                                 /\ dict.start_time.j = "datetime"
                                 /\ end_after_start(dict.end_time, dict.start_time)}}
            \cup {"operation" : x \in {1} \ {y \in {1} : enum(dict.operation, Operations)}}
            \cup {"aggregation_level" : x \in {1} \ {y \in {1} :
                    \/ dict.aggregation_level.j \in {"absent", "null"}
                    \/ enum(dict.aggregation_level, AggregationLevelValues)}}
            \cup {"confidence" : x \in {1} \ {y \in {1} :
                    /\ dict.confidence.j = "num"
                    /\ dict.confidence.n >= 0
                    /\ dict.confidence.n <= 100}}
        \* validate_location_matches_intent, run after the fields validate
        model_errors ==
            IF field_errors # {} THEN {}
            ELSE IF dict.intent_type.s = "comparison" /\ dict.location.j = "str"
            THEN {"Comparison queries require multiple locations"}
            ELSE IF dict.intent_type.s = "query" /\ dict.location.j = "list"
            THEN {"Simple queries require single location"}
            ELSE {}
        errors == field_errors \cup model_errors
    IN  IF errors # {} THEN [errors |-> errors]
        ELSE [errors |-> {},
              spec |-> [intent_type |-> dict.intent_type.s,
                        sensor_type |-> dict.sensor_type.s,
                        location |-> dict.location,
                        start_time |-> dict.start_time.t,
                        end_time |-> dict.end_time.t,
                        operation |-> dict.operation.s,
                        aggregation_level |->
                            IF dict.aggregation_level.j = "str"
                            THEN dict.aggregation_level.s ELSE NoneStr,
                        confidence |-> dict.confidence.n]]

\* LLMParseError as parse raises it: the prefix of its handler, str(e) of
\* the exception handled, and the validation errors if any
LLMParseError(prefix, cause, errors) ==
    [r |-> "LLMParseError", prefix |-> prefix, cause |-> cause, errors |-> errors]

\* TaskSpecificationParser.parse
parse(llm_output_text, object_members) ==
    LET extracted == extract_json(llm_output_text)
        decoded == json_loads(extracted.json_str, object_members)
        normalized == normalize_data(decoded.data)
        validated == model_validate(normalized.data)
    IN  IF extracted.exc # NoneStr
        THEN LLMParseError("Unexpected parsing error: ", extracted.exc, {})
        ELSE IF decoded.exc # NoneStr
        THEN LLMParseError("Invalid JSON in LLM output: ", decoded.exc, {})
        ELSE IF normalized.exc # NoneStr
        THEN LLMParseError("Unexpected parsing error: ", normalized.exc, {})
        ELSE IF validated.errors # {}
        THEN LLMParseError("Validation error: ", "ValidationError", validated.errors)
        ELSE [r |-> "returned", spec |-> validated.spec]

\* OllamaLLM._generate hands a raw text to the parser; parse keeps no state
\* between calls, so one call is followed from the initial state
generate ==
    /\ parser_pc = "idle"
    /\ \E g \in Generations :
        /\ llm_output' = g.text
        /\ members' = g.members
    /\ parse_result' = None
    /\ parser_pc' = "generated"
    /\ UNCHANGED <<workflow_vars, catalog_vars, validator_vars, tool_vars, client_vars>>

\* one call of TaskSpecificationParser.parse on that text
run_parse ==
    /\ parser_pc = "generated"
    /\ parse_result' = parse(llm_output, members)
    /\ parser_pc' = IF parse_result'.r = "returned" THEN "returned" ELSE "raised"
    /\ UNCHANGED <<llm_output, members, workflow_vars, catalog_vars, validator_vars, tool_vars, client_vars>>

ParserNext ==
    \/ generate
    \/ run_parse

ParserSpec == Init /\ [][ParserNext]_vars

\* ------------------------------------------------- SensorDataRepository
\* str.lower() on a sequence of characters
LowerChar(c) == CASE c = "N" -> "n" [] OTHER -> c

Lower(str) == [k \in DOMAIN str |-> LowerChar(str[k])]

\* needle in hay, for strings
Contains(needle, hay) ==
    \E k \in 0..(Len(hay) - Len(needle)) : SubSeq(hay, k + 1, k + Len(needle)) = needle

\* _get_human_readable_location: "Node " and the text before the first
\* underscore, or the name itself when it has no underscore
get_human_readable_location(node_name) ==
    IF \E k \in DOMAIN node_name : node_name[k] = "_"
    THEN LET first == CHOOSE k \in DOMAIN node_name :
                          /\ node_name[k] = "_"
                          /\ \A m \in 1..(k - 1) : node_name[m] # "_"
         IN  <<"N", "o", "d", "e", " ">> \o SubSeq(node_name, 1, first - 1)
    ELSE node_name

\* _normalize_sensor_type with the default keyword lists, for the type
\* names the API holds here; NoneStr when no keyword matches
normalize_sensor_type(sensor_type_name) ==
    CASE sensor_type_name \in {"temperature", "air temperature"} -> "temperature"
      [] sensor_type_name = "rh" -> "humidity"
      [] OTHER -> NoneStr

\* the three tests of _find_sensor on one sensor
SensorMatches(sensor, sensor_type, location) ==
    /\ normalize_sensor_type(sensor.sensor_type) = sensor_type
    /\ \/ Lower(get_human_readable_location(sensor.location)) = Lower(location)
       \/ Contains(Lower(location), Lower(get_human_readable_location(sensor.location)))
       \/ Contains(Lower(location), Lower(sensor.location))

\* _find_sensor over the listed sensors: the first sensor that passes
\* any of the tests, or None
find_sensor(sensors, sensor_type, location) ==
    IF \E k \in DOMAIN sensors : SensorMatches(sensors[k], sensor_type, location)
    THEN sensors[CHOOSE k \in DOMAIN sensors :
                    /\ SensorMatches(sensors[k], sensor_type, location)
                    /\ \A m \in 1..(k - 1) : ~SensorMatches(sensors[m], sensor_type, location)]
    ELSE None

\* the set get_available_sensors sorts and returns
available_sensors(sensors) ==
    {normalize_sensor_type(sensors[k].sensor_type) : k \in DOMAIN sensors} \ {NoneStr}

\* the set get_available_locations sorts and returns
available_locations(nodes) ==
    {get_human_readable_location(nodes[k].name) :
        k \in {m \in DOMAIN nodes : nodes[m].location # <<>>}}

Returned(v) == [kind |-> "returned", value |-> v]

\* the operation of call c is over with this result: its locals are gone
Done(c, result) ==
    [c EXCEPT !.pc = "done", !.result = result, !.ret = "derive", !.fetched = None,
              !.nodes = None, !.sensors = <<>>, !.i = 1, !.got_sensors = None]

CatalogOps == {"get_available_sensors", "get_available_locations", "find_sensor",
               "clear_cache"}

\* a caller enters one of the repository's operations
call(t) ==
    /\ calls[t].pc \in {"idle", "done"}
    /\ \E op \in CatalogOps, req \in FindRequests :
        calls' = [calls EXCEPT ![t] =
            [IdleCall EXCEPT
                !.op = op,
                !.arg = IF op = "find_sensor" THEN req ELSE None,
                !.pc = CASE op = "clear_cache" -> "clear_nodes"
                         [] op = "get_available_locations" -> "nodes_check"
                         [] OTHER -> "sensors_check",
                !.nodes_cached_at_call = (nodes_cache # None),
                !.sensors_cached_at_call = (sensors_cache # None)]]
    /\ UNCHANGED <<upstream, nodes_cache, sensors_cache, workflow_vars, parser_vars, validator_vars, tool_vars, client_vars>>

\* _get_all_sensors: if self._sensors_cache is None
get_all_sensors_check(t) ==
    /\ calls[t].pc = "sensors_check"
    /\ calls' = [calls EXCEPT ![t] =
            IF sensors_cache = None
            THEN [@ EXCEPT !.pc = "nodes_check", !.ret = "sensors_loop"]
            ELSE [@ EXCEPT !.pc = "sensors_return"]]
    /\ UNCHANGED <<upstream, nodes_cache, sensors_cache, workflow_vars, parser_vars, validator_vars, tool_vars, client_vars>>

\* _get_all_nodes that never looks at the cache
NodesCacheEmpty_always(cache) == TRUE

\* _get_all_nodes: self._nodes_cache is None
NodesCacheEmpty(cache) == cache = None

\* _get_all_nodes: the test of the cache
get_all_nodes_check(t) ==
    /\ calls[t].pc = "nodes_check"
    /\ calls' = [calls EXCEPT ![t] =
            IF NodesCacheEmpty(nodes_cache)
            THEN [@ EXCEPT !.pc = "list_nodes"]
            ELSE [@ EXCEPT !.pc = "nodes_return"]]
    /\ UNCHANGED <<upstream, nodes_cache, sensors_cache, workflow_vars, parser_vars, validator_vars, tool_vars, client_vars>>

\* api_client.list_nodes: the answer, or the exception, which no caller
\* on the way up catches
list_nodes(t) ==
    /\ calls[t].pc = "list_nodes"
    /\ calls' = [calls EXCEPT ![t] =
            IF upstream.nodes.kind = "raised"
            THEN Done([@ EXCEPT !.listed_nodes = TRUE], upstream.nodes)
            ELSE [@ EXCEPT !.pc = "nodes_store", !.fetched = upstream.nodes,
                           !.listed_nodes = TRUE]]
    /\ UNCHANGED <<upstream, nodes_cache, sensors_cache, workflow_vars, parser_vars, validator_vars, tool_vars, client_vars>>

\* self._nodes_cache = the list just fetched
store_nodes(t) ==
    /\ calls[t].pc = "nodes_store"
    /\ nodes_cache' = calls[t].fetched
    /\ calls' = [calls EXCEPT ![t].pc = "nodes_return"]
    /\ UNCHANGED <<upstream, sensors_cache, workflow_vars, parser_vars, validator_vars, tool_vars, client_vars>>

\* return self._nodes_cache, read again from the shared slot
return_nodes(t) ==
    /\ calls[t].pc = "nodes_return"
    /\ calls' = [calls EXCEPT ![t] =
            [@ EXCEPT !.pc = calls[t].ret, !.nodes = nodes_cache, !.sensors = <<>>, !.i = 1]]
    /\ UNCHANGED <<upstream, nodes_cache, sensors_cache, workflow_vars, parser_vars, validator_vars, tool_vars, client_vars>>

\* what the loop of _get_all_sensors does with the answer for one node:
\* it extends the list, skips the node, or lets the exception out
AfterListSensors(c, node, answer) ==
    IF answer.kind = "list"
    THEN [c EXCEPT !.i = c.i + 1, !.listed_sensors = TRUE,
                   !.sensors = c.sensors \o
                       [k \in DOMAIN answer.items |->
                           [answer.items[k] EXCEPT !.location = node.location]]]
    ELSE IF answer.exc = "SMTAPIError"
    THEN [c EXCEPT !.i = c.i + 1, !.listed_sensors = TRUE]
    ELSE Done([c EXCEPT !.listed_sensors = TRUE], answer)

\* one turn of the loop over the nodes in _get_all_sensors
list_sensors(t) ==
    /\ calls[t].pc = "sensors_loop"
    /\ calls' = [calls EXCEPT ![t] =
            IF calls[t].nodes = None
            THEN Done(@, Raised("TypeError"))
            ELSE IF calls[t].i > Len(calls[t].nodes.items)
            THEN [@ EXCEPT !.pc = "sensors_store"]
            ELSE AfterListSensors(calls[t], calls[t].nodes.items[calls[t].i],
                     upstream.sensors[calls[t].nodes.items[calls[t].i].node_id])]
    /\ UNCHANGED <<upstream, nodes_cache, sensors_cache, workflow_vars, parser_vars, validator_vars, tool_vars, client_vars>>

\* a fill that extends the shared list instead of replacing it
store_sensors_extend(t) ==
    /\ calls[t].pc = "sensors_store"
    /\ sensors_cache' = IF sensors_cache = None THEN List(calls[t].sensors)
                        ELSE List(sensors_cache.items \o calls[t].sensors)
    /\ calls' = [calls EXCEPT ![t].pc = "sensors_return"]
    /\ UNCHANGED <<upstream, nodes_cache, workflow_vars, parser_vars, validator_vars, tool_vars, client_vars>>

\* self._sensors_cache = sensors
store_sensors(t) ==
    /\ calls[t].pc = "sensors_store"
    /\ sensors_cache' = List(calls[t].sensors)
    /\ calls' = [calls EXCEPT ![t].pc = "sensors_return"]
    /\ UNCHANGED <<upstream, nodes_cache, workflow_vars, parser_vars, validator_vars, tool_vars, client_vars>>

\* return self._sensors_cache, read again from the shared slot
return_sensors(t) ==
    /\ calls[t].pc = "sensors_return"
    /\ calls' = [calls EXCEPT ![t] = [@ EXCEPT !.pc = "derive", !.got_sensors = sensors_cache]]
    /\ UNCHANGED <<upstream, nodes_cache, sensors_cache, workflow_vars, parser_vars, validator_vars, tool_vars, client_vars>>

\* the rest of get_available_sensors, get_available_locations and
\* _find_sensor once the list is in hand; iterating None raises TypeError
OperationResult(c) ==
    CASE c.op = "get_available_locations" ->
             IF c.nodes = None THEN Raised("TypeError")
             ELSE Returned(available_locations(c.nodes.items))
      [] c.op = "get_available_sensors" ->
             IF c.got_sensors = None THEN Raised("TypeError")
             ELSE Returned(available_sensors(c.got_sensors.items))
      [] OTHER ->
             IF c.got_sensors = None THEN Raised("TypeError")
             ELSE Returned(find_sensor(c.got_sensors.items, c.arg.sensor_type,
                                       c.arg.location))

finish(t) ==
    /\ calls[t].pc = "derive"
    /\ calls' = [calls EXCEPT ![t] = Done(@, OperationResult(@))]
    /\ UNCHANGED <<upstream, nodes_cache, sensors_cache, workflow_vars, parser_vars, validator_vars, tool_vars, client_vars>>

\* every call in flight other than t has now seen a clear_cache
MarkCleared(t) ==
    [u \in Callers |->
        IF u # t /\ calls[u].pc \notin {"idle", "done"}
        THEN [calls[u] EXCEPT !.cleared_during = TRUE]
        ELSE calls[u]]

\* clear_cache: self._nodes_cache = None
clear_nodes(t) ==
    /\ calls[t].pc = "clear_nodes"
    /\ nodes_cache' = None
    /\ calls' = [MarkCleared(t) EXCEPT ![t].pc = "clear_sensors"]
    /\ UNCHANGED <<upstream, sensors_cache, workflow_vars, parser_vars, validator_vars, tool_vars, client_vars>>

\* a clear_cache that forgets the sensors
clear_sensors_keep(t) ==
    /\ calls[t].pc = "clear_sensors"
    /\ calls' = [MarkCleared(t) EXCEPT ![t] = Done(@, Returned(None))]
    /\ UNCHANGED <<upstream, nodes_cache, sensors_cache, workflow_vars, parser_vars, validator_vars, tool_vars, client_vars>>

\* clear_cache: self._sensors_cache = None
clear_sensors(t) ==
    /\ calls[t].pc = "clear_sensors"
    /\ sensors_cache' = None
    /\ calls' = [MarkCleared(t) EXCEPT ![t] = Done(@, Returned(None))]
    /\ UNCHANGED <<upstream, nodes_cache, workflow_vars, parser_vars, validator_vars, tool_vars, client_vars>>

CatalogInit ==
    /\ pc = "idle"
    /\ authenticated = FALSE
    /\ user_query = "What was the average temperature in Node 15 yesterday?"
    /\ task_spec = None
    /\ validation_errors = <<>>
    /\ data = None
    /\ analytics_result = None
    /\ explanation = None
    /\ error_explanation = None
    /\ execution_trace = <<>>
    /\ success = FALSE
    /\ end_time = FALSE
    /\ collab = [c \in CollabNames |-> NotCalled]
    /\ parser_pc = "idle"
    /\ llm_output = <<>>
    /\ members = BaseMembers
    /\ parse_result = None
    /\ upstream \in Upstreams
    /\ nodes_cache = None
    /\ sensors_cache = None
    /\ calls = [t \in Callers |-> IdleCall]
    /\ checked = None
    /\ location_errors = None
    /\ task_errors = None
    /\ context_errors = None
    /\ tool_args = None
    /\ tool_result = None
    /\ session_id = NoneStr
    /\ max_retries = DefaultMaxRetries
    /\ request = IdleRequest

CatalogNext ==
    \E t \in Callers :
        \/ call(t)
        \/ get_all_sensors_check(t)
        \/ get_all_nodes_check(t)
        \/ list_nodes(t)
        \/ store_nodes(t)
        \/ return_nodes(t)
        \/ list_sensors(t)
        \/ store_sensors(t)
        \/ return_sensors(t)
        \/ finish(t)
        \/ clear_nodes(t)
        \/ clear_sensors(t)

CatalogSpec == CatalogInit /\ [][CatalogNext]_vars

\* ------------------------------------------------------------- validators
\* the longest location list of a specification handed to the validators
MaxLocations == 2

\* location names a specification may carry; "Node 15" and "Node 16" are
\* in the larger catalog, "Node 100" is in none
LocationNames == {"Node 15", "Node 16", "Node 100"}

\* the JSON objects the specifications handed to the validators are built
\* from: a string or a list of locations, the list possibly empty
ValidatorPayloads ==
    {[BaseMembers EXCEPT !.intent_type = JStr(i), !.sensor_type = JStr(s),
                         !.location = l, !.start_time = DateTime(a),
                         !.end_time = DateTime(b)] :
        i \in IntentTypes, s \in {"temperature", "energy"},
        l \in {JStr(n) : n \in LocationNames}
              \cup {JList(q) : q \in SeqsUpTo(LocationNames, MaxLocations)},
        a \in {-1, 1}, b \in {1, 2, 4}}

\* the specifications the constructor accepts
ConstructedSpecs ==
    {model_validate(d).spec : d \in {m \in ValidatorPayloads : model_validate(m).errors = {}}}

\* what get_available_sensors, get_available_locations and get_time_range
\* return: the catalog of the system context, and one of six locations
Catalogs ==
    {SystemContext,
     [available_sensors |-> <<"humidity", "temperature">>,
      available_locations |-> <<"Node 11", "Node 12", "Node 13", "Node 14",
                                "Node 15", "Node 16">>,
      time_range |-> <<0, 3>>]}

\* list[:n]
Head5(list) == SubSeq(list, 1, IF Len(list) < 5 THEN Len(list) ELSE 5)

\* validate_parameters stopping at the first error it finds
validate_parameters_first(sensor_type, location, time_range, repository) ==
    IF ~InSeq(sensor_type, repository.available_sensors)
    THEN <<[text |-> "Unknown sensor type", value |-> sensor_type,
            available |-> repository.available_sensors]>>
    ELSE IF ~InSeq(location, repository.available_locations)
    THEN <<[text |-> "Unknown location", value |-> location,
            available |-> Head5(repository.available_locations)]>>
    ELSE IF time_range[1] < repository.time_range[1]
    THEN <<[text |-> "Start time is before available data",
            value |-> time_range[1], available |-> repository.time_range[1]]>>
    ELSE IF time_range[2] > repository.time_range[2]
    THEN <<[text |-> "End time is after available data",
            value |-> time_range[2], available |-> repository.time_range[2]]>>
    ELSE <<>>

\* SensorDataRepository.validate_parameters for one location; repository
\* holds what get_available_sensors, get_available_locations and
\* get_time_range return
validate_parameters(sensor_type, location, time_range, repository) ==
    LET e1 == IF ~InSeq(sensor_type, repository.available_sensors)
              THEN <<[text |-> "Unknown sensor type", value |-> sensor_type,
                      available |-> repository.available_sensors]>>
              ELSE <<>>
        e2 == IF ~InSeq(location, repository.available_locations)
              THEN <<[text |-> "Unknown location", value |-> location,
                      available |-> Head5(repository.available_locations)]>>
              ELSE <<>>
        e3 == IF time_range[1] < repository.time_range[1]
              THEN <<[text |-> "Start time is before available data",
                      value |-> time_range[1],
                      available |-> repository.time_range[1]]>>
              ELSE <<>>
        e4 == IF time_range[2] > repository.time_range[2]
              THEN <<[text |-> "End time is after available data",
                      value |-> time_range[2],
                      available |-> repository.time_range[2]]>>
              ELSE <<>>
    IN  e1 \o e2 \o e3 \o e4

\* errors.extend over the lists of the loop, in order
RECURSIVE Extend(_)
Extend(lists) ==
    IF lists = <<>> THEN <<>> ELSE Head(lists) \o Extend(Tail(lists))

\* a specification is built and handed to the validators with a catalog
construct ==
    /\ checked = None
    /\ \E spec \in ConstructedSpecs, repository \in Catalogs :
           checked' = [task_spec |-> spec, repository |-> repository]
    /\ UNCHANGED <<location_errors, task_errors, context_errors,
                   workflow_vars, parser_vars, catalog_vars, tool_vars, client_vars>>

\* LLMDataBridge.validate_task: validate_parameters once per location of
\* the specification, the lists appended to one another
bridge_validate_task ==
    /\ checked # None
    /\ task_errors = None
    /\ LET spec == checked.task_spec
           locations == get_locations_list(spec)
           per_location ==
               [i \in DOMAIN locations |->
                   validate_parameters(spec.sensor_type, locations[i],
                                       <<spec.start_time, spec.end_time>>,
                                       checked.repository)]
       IN  /\ location_errors' = List(per_location)
           /\ task_errors' = List(Extend(per_location))
    /\ UNCHANGED <<checked, context_errors, workflow_vars, parser_vars, catalog_vars, tool_vars, client_vars>>

\* TaskSpecificationParser.validate_against_context on the same
\* specification and catalog
context_validate ==
    /\ checked # None
    /\ context_errors = None
    /\ context_errors' =
           List(validate_against_context(checked.task_spec,
                                         checked.repository.available_sensors,
                                         checked.repository.available_locations,
                                         checked.repository.time_range))
    /\ UNCHANGED <<checked, location_errors, task_errors,
                   workflow_vars, parser_vars, catalog_vars, tool_vars, client_vars>>

ValidatorNext ==
    \/ construct
    \/ bridge_validate_task
    \/ context_validate

ValidatorSpec == Init /\ [][ValidatorNext]_vars

\* ------------------------------------------------------------------ tools
\* the most rows of a DataFrame handed to a tool
MaxSamples == 3

\* values of the value column
SampleValues == {1, 2, 3}

\* the operation keyword argument: one of these, or NoneStr when the
\* keyword is not given
ToolOperations == {"mean", "min", "max", "sum", "invalid"}

\* DataFrames handed to the tool: with the three required columns or
\* without the unit column, of zero to MaxSamples rows
DataFrames ==
    {[columns |-> c, values |-> v] :
        c \in {{"timestamp", "value", "unit"}, {"timestamp", "value"}},
        v \in SeqsUpTo(SampleValues, MaxSamples)}

\* a float that is a quotient of integers; 0/0 is NaN
Quotient(n, d) == [num |-> n, den |-> d]

RECURSIVE SeqSum(_)
SeqSum(values) == IF values = <<>> THEN 0 ELSE Head(values) + SeqSum(Tail(values))

SeqMin(values) == CHOOSE x \in {values[i] : i \in DOMAIN values} :
                      \A i \in DOMAIN values : x <= values[i]
SeqMax(values) == CHOOSE x \in {values[i] : i \in DOMAIN values} :
                      \A i \in DOMAIN values : x >= values[i]

\* Series.mean()
Mean(values) == Quotient(SeqSum(values), Len(values))

\* the square of Series.std(): the sample variance, NaN for a single row
Variance(values) ==
    LET n == Len(values)
        squares == SeqSum([i \in DOMAIN values |-> values[i] * values[i]])
    IN  Quotient(n * squares - SeqSum(values) * SeqSum(values), n * (n - 1))

\* TemporalMeanTool.execute(data, **kwargs); operation is the keyword
\* argument, which the method does not read
TemporalMeanTool_execute(frame, operation) ==
    IF ~({"timestamp", "value", "unit"} \subseteq frame.columns)
    THEN [r |-> "returned", success |-> FALSE, value |-> NoneStr, unit |-> NoneStr,
          metadata |-> [none |-> TRUE],
          error_message |-> <<"Missing required columns: ",
                              {"timestamp", "value", "unit"} \ frame.columns>>]
    ELSE IF frame.values = <<>>
    THEN [r |-> "exception", e |-> "IndexError"]
    ELSE [r |-> "returned", success |-> TRUE,
          value |-> Mean(frame.values), unit |-> "C",
          metadata |-> [std_dev_squared |-> Variance(frame.values),
                        min |-> SeqMin(frame.values),
                        max |-> SeqMax(frame.values),
                        sample_size |-> Len(frame.values)],
          error_message |-> <<>>]

\* a caller picks a DataFrame and the keyword argument
tool_call ==
    /\ tool_args = None
    /\ \E frame \in DataFrames, operation \in ToolOperations \cup {NoneStr} :
           tool_args' = [frame |-> frame, operation |-> operation]
    /\ UNCHANGED <<tool_result, workflow_vars, parser_vars, catalog_vars, validator_vars, client_vars>>

\* the tool runs
tool_execute ==
    /\ tool_args # None
    /\ tool_result = None
    /\ tool_result' = TemporalMeanTool_execute(tool_args.frame, tool_args.operation)
    /\ UNCHANGED <<tool_args, workflow_vars, parser_vars, catalog_vars, validator_vars, client_vars>>

ToolNext ==
    \/ tool_call
    \/ tool_execute

ToolSpec == Init /\ [][ToolNext]_vars

\* ----------------------------------------------------------------- client
\* everything but the fields of the client
outside_client == <<pc, user_query, task_spec, validation_errors, data, analytics_result,
                    explanation, error_explanation, execution_trace, success, end_time,
                    collab, parser_vars, catalog_vars, validator_vars, tool_vars>>

\* SMTAPIClient.from_config: a client that has made no call yet gets its
\* max_retries from the configuration
from_config ==
    /\ request = IdleRequest
    /\ ~authenticated
    /\ \E n \in 0..MaxRetries : max_retries' = n
    /\ UNCHANGED <<authenticated, session_id, request, outside_client>>

\* a handler that also retries after an error element
Retry_any(response) == response.kind \in {"transport", "api_error"}

\* the handler of the loop: only requests.RequestException is caught
Retry(response) == response.kind = "transport"

\* login accepting a document without a PHPSESSID element
LoginSucceeded_nosession(response) == response.result = "success"

\* login: the document says success and holds a PHPSESSID element
LoginSucceeded(response) == response.result = "success" /\ response.session # NoneStr

\* the rest of login, logout or a data call after _make_request returned
\* the document or raised e: the result of the call and the two fields
Complete(op, made, response) ==
    CASE op = "login" ->
             IF made.kind = "returned" /\ LoginSucceeded(response)
             THEN [result |-> Returned(TRUE), authenticated |-> TRUE,
                   session_id |-> response.session]
             ELSE IF made.kind = "raised" /\ made.exc = "ParseError"
             THEN [result |-> made, authenticated |-> authenticated,
                   session_id |-> session_id]
             ELSE [result |-> Raised("SMTAuthenticationError"),
                   authenticated |-> authenticated, session_id |-> session_id]
      [] op = "logout" ->
             IF made.kind = "returned" /\ response.result = "success"
             THEN [result |-> Returned(TRUE), authenticated |-> FALSE,
                   session_id |-> NoneStr]
             ELSE IF made.kind = "raised" /\ made.exc = "ParseError"
             THEN [result |-> made, authenticated |-> authenticated,
                   session_id |-> session_id]
             ELSE [result |-> Returned(FALSE), authenticated |-> authenticated,
                   session_id |-> session_id]
      [] OTHER ->
             [result |-> made, authenticated |-> authenticated, session_id |-> session_id]

\* the call ends: _make_request returned or raised, the method finishes
EndRequest(during, made, response) ==
    LET after == Complete(during.op, made, response)
    IN  /\ request' = [during EXCEPT !.pc = "done", !.made = made,
                                      !.result = after.result,
                                      !.log = IF response.kind = "none" THEN @
                                              ELSE Append(@, response)]
        /\ authenticated' = after.authenticated
        /\ session_id' = after.session_id

\* a call on the client starts: logout of a client that is not
\* authenticated returns at once, a data call of such a client raises,
\* every other call enters _make_request
api_call ==
    /\ request.pc \in {"idle", "done"}
    /\ \E op \in ClientOps :
        request' =
            IF op = "logout" /\ ~authenticated
            THEN [IdleRequest EXCEPT !.op = op, !.pc = "done", !.result = Returned(TRUE)]
            ELSE IF op \in DataOps /\ ~authenticated
            THEN [IdleRequest EXCEPT !.op = op, !.pc = "done",
                                     !.result = Raised("SMTAPIError")]
            ELSE [IdleRequest EXCEPT !.op = op, !.pc = "request"]
    /\ UNCHANGED <<authenticated, session_id, max_retries, outside_client>>

\* one pass of the loop of _make_request: session.get, raise_for_status,
\* ET.fromstring, the test for an error element
attempt ==
    /\ request.pc = "request"
    /\ request.i < max_retries
    /\ \E response \in Responses(request.op) :
        LET sent == [request EXCEPT !.unauthenticated_send = @ \/ ~authenticated]
        IN  IF Retry(response) /\ request.i < max_retries - 1
            THEN /\ request' = [sent EXCEPT !.i = @ + 1, !.log = Append(@, response)]
                 /\ UNCHANGED <<authenticated, session_id>>
            ELSE EndRequest(sent,
                            CASE response.kind = "ok" -> Returned("root")
                              [] response.kind = "malformed" -> Raised("ParseError")
                              [] OTHER -> Raised("SMTAPIError"),
                            response)
    /\ UNCHANGED <<max_retries, outside_client>>

\* the statement after the loop, reached when the loop made no pass
exhausted ==
    /\ request.pc = "request"
    /\ request.i >= max_retries
    /\ EndRequest(request, Raised("SMTAPIError"),
                  [kind |-> "none", result |-> "none", session |-> NoneStr])
    /\ UNCHANGED <<max_retries, outside_client>>

ApiNext ==
    \/ from_config
    \/ api_call
    \/ attempt
    \/ exhausted

ApiSpec == Init /\ [][ApiNext]_vars

\* every HTTP attempt ends, by an answer or by the timeout of session.get
ApiLiveSpec == ApiSpec /\ WF_vars(attempt) /\ WF_vars(exhausted)

\* ---------------------------------------------------------------- properties
HasStep(step) == \E i \in DOMAIN execution_trace : execution_trace[i].step = step

StepNames == [i \in DOMAIN execution_trace |-> execution_trace[i].step]

LastEntry == execution_trace[Len(execution_trace)]

InterpretFailed == collab["extract_intent"].r \in {"llm_error", "exception"}

\* C1: the state execute returns has explanation or error_explanation
\* populated (non-empty), success set, and a non-empty execution_trace.
C1_Claim ==
    pc = "END" =>
        /\ Truthy(explanation) \/ Truthy(error_explanation)
        /\ success \in BOOLEAN
        /\ execution_trace # <<>>

\* C2: execute never raises to its caller; every call ends by returning a state.
C2_Claim == pc # "raised"

\* C3: once handle_error is entered no other step starts after it, the run
\* ends with success = false, and a successful final state has no
\* handle_error trace entry.
C3_HandleErrorTerminal ==
    /\ \A i \in DOMAIN execution_trace :
         execution_trace[i].step = "handle_error" =>
             \A j \in i..Len(execution_trace) : execution_trace[j].step = "handle_error"
    /\ HasStep("handle_error") => pc = "END" /\ success = FALSE
    /\ (pc = "END" /\ success) => ~HasStep("handle_error")

C3_Witness == pc = "END" /\ HasStep("handle_error") /\ HasStep("retrieve_data")

\* C4 (as stated): when interpret_query fails the next state is handle_error
\* and no validate_task, retrieve_data or execute_analytics entry follows.
C4_Claim ==
    InterpretFailed =>
        /\ pc \in {"handle_error", "END"}
        /\ ~HasStep("validate_task")
        /\ ~HasStep("retrieve_data")
        /\ ~HasStep("execute_analytics")

\* C4 (amended): when interpret_query fails the next state is validate_task,
\* which fails on the missing task specification without calling the
\* validator, and the state after that is handle_error; no retrieve_data,
\* execute_analytics or generate_explanation entry appears.
C4_Amended ==
    InterpretFailed =>
        LET path == <<"interpret_query", "interpret_query", "validate_task",
                      "validate_task", "handle_error", "handle_error">>
            n == Len(execution_trace)
        IN  /\ n <= Len(path)
            /\ StepNames = SubSeq(path, 1, n)
            /\ pc = (CASE n = 2 -> "validate_task" [] n = 4 -> "handle_error"
                       [] n = 6 -> "END" [] OTHER -> "none")
            /\ n >= 4 => execution_trace[4].status = "failed"
            /\ collab["validate_task"] = NotCalled

C4_Witness == InterpretFailed /\ pc = "END" /\ HasStep("validate_task")

\* C5: when interpret_query fails, the error list handle_error receives and
\* the final state carries is the single-element list holding the
\* interpret failure reason.
C5_Claim ==
    (InterpretFailed /\ pc \in {"handle_error", "END"}) =>
        /\ validation_errors = InterpretErrors(collab["extract_intent"])
        /\ collab["explain_error"] # NotCalled =>
               collab["explain_error"].errors = InterpretErrors(collab["extract_intent"])

ValidatorReturned == collab["validate_task"].r = "returned"

\* C6: after validate_task, zero validator errors lead to retrieve_data;
\* one or more lead to handle_error, retrieve_data is never entered, and
\* the validation_errors handle_error sees and the final state holds are
\* exactly the validator's strings in the same order.
C6_ValidationRouting ==
    ValidatorReturned =>
        LET es == collab["validate_task"].errors
            n == Len(execution_trace)
        IN  IF es = <<>>
            THEN /\ n = 4 => pc = "retrieve_data"
                 /\ n > 4 => execution_trace[5].step = "retrieve_data"
            ELSE /\ n = 4 => pc = "handle_error"
                 /\ n > 4 => execution_trace[5].step = "handle_error"
                 /\ pc \in {"handle_error", "END"}
                 /\ ~HasStep("retrieve_data")
                 /\ validation_errors = es
                 /\ collab["explain_error"] # NotCalled =>
                        collab["explain_error"].errors = es

C6_Witness ==
    /\ ValidatorReturned
    /\ Len(collab["validate_task"].errors) = 2
    /\ collab["validate_task"].errors[1] # collab["validate_task"].errors[2]
    /\ pc = "END"
    /\ collab["explain_error"] # NotCalled

RetrievalFailed ==
    \/ collab["execute_task"].r = "repository_error"
    \/ collab["execute_task"].r = "returned" /\ collab["execute_task"].rows = <<>>

ToolFailed ==
    \/ collab["tool"].r = "no_tool"
    \/ collab["tool"].r = "returned" /\ ~collab["tool"].success

\* C8: with no tool for the operation, or a tool result with success =
\* false, execute_analytics records failed, analytics_result stays unset,
\* the error list is a single error (the tool's own error_message when it
\* reported one), the next state is handle_error and generate_explanation
\* is never entered.
C8_ComputeFailure ==
    ToolFailed =>
        /\ execution_trace[8].step = "execute_analytics"
        /\ execution_trace[8].status = "failed"
        /\ analytics_result = None
        /\ Len(validation_errors) = 1
        /\ (collab["tool"].r = "returned" /\ collab["tool"].error_message \notin {NoneStr, ""})
              => validation_errors = << <<collab["tool"].error_message>> >>
        /\ pc \in {"handle_error", "END"}
        /\ Len(execution_trace) > 8 => execution_trace[9].step = "handle_error"
        /\ ~HasStep("generate_explanation")

C8_Witness ==
    /\ collab["tool"].r = "returned"
    /\ ~collab["tool"].success
    /\ collab["tool"].error_message \notin {NoneStr, ""}
    /\ pc = "END"

\* C9: when the explanation collaborator fails inside generate_explanation,
\* handle_error is not entered, the final state has success = true,
\* error_explanation unset, and explanation is the template built from the
\* computed value and unit.
C9_ExplainAbsorbed ==
    collab["explain_results"].r \in {"llm_error", "exception"} =>
        /\ pc = "END"
        /\ ~HasStep("handle_error")
        /\ success = TRUE
        /\ error_explanation = None
        /\ explanation = [kind |-> "template", prefix |-> "Result: ",
                          value |-> collab["tool"].value, unit |-> collab["tool"].unit]

C9_Witness ==
    /\ collab["explain_results"].r = "exception"
    /\ pc = "END"
    /\ LastEntry.step = "generate_explanation"

ErrorExplainFailed == collab["explain_error"].r \in {"llm_error", "exception"}

C11_TracePairs ==
    /\ Len(execution_trace) % 2 = 0
    /\ \A k \in 1..(Len(execution_trace) \div 2) :
         /\ execution_trace[2 * k - 1].status = "started"
         /\ execution_trace[2 * k].step = execution_trace[2 * k - 1].step
         /\ execution_trace[2 * k].status \in {"completed", "failed"}
         /\ 2 * k < Len(execution_trace) =>
                execution_trace[2 * k + 1].step # execution_trace[2 * k].step

C11_Witness ==
    /\ pc = "END"
    /\ Len(execution_trace) = 6
    /\ execution_trace[4].step = "validate_task"
    /\ collab["validate_task"] = NotCalled

\* C12: every exit entry (status 'completed' or 'failed') carries a
\* duration.
C12_Claim ==
    \A i \in DOMAIN execution_trace :
        execution_trace[i].status \in {"completed", "failed"} =>
            execution_trace[i].duration = TRUE

NodeNames == {"interpret_query", "validate_task", "retrieve_data",
              "execute_analytics", "generate_explanation", "handle_error"}

\* position of a state along the graph; END is last
Rank(p) ==
    CASE p = "interpret_query" -> 1
      [] p = "validate_task" -> 2
      [] p = "retrieve_data" -> 3
      [] p = "execute_analytics" -> 4
      [] p = "generate_explanation" -> 5
      [] p = "handle_error" -> 5
      [] p = "END" -> 6
      [] OTHER -> 0

NodeStep ==
    \/ interpret_query
    \/ validate_task
    \/ retrieve_data
    \/ execute_analytics
    \/ generate_explanation
    \/ handle_error

\* C13: every run ends at END after visiting each state at most once: no
\* step has two 'started' entries, every state has a step to take and each
\* step moves strictly forward along the graph, and no collaborator is
\* called a second time within a run.
C13_NoRevisit ==
    /\ [](/\ \A n \in NodeNames :
               Cardinality({i \in DOMAIN execution_trace :
                               /\ execution_trace[i].step = n
                               /\ execution_trace[i].status = "started"}) <= 1
          /\ pc \in NodeNames => ENABLED NodeStep)
    /\ [][/\ pc \in NodeNames => Rank(pc') > Rank(pc)
          /\ \A c \in CollabNames :
               (pc \in NodeNames /\ collab[c] # NotCalled) => collab'[c] = collab[c]]_vars

C13_Witness ==
    /\ pc = "END"
    /\ HasStep("execute_analytics")
    /\ HasStep("handle_error")
    /\ Len(execution_trace) = 10

ComputeSucceeded ==
    /\ collab["extract_intent"].r = "returned"
    /\ collab["validate_task"].r = "returned"
    /\ collab["validate_task"].errors = <<>>
    /\ collab["execute_task"].r = "returned"
    /\ collab["execute_task"].rows # <<>>
    /\ collab["tool"].r = "returned"
    /\ collab["tool"].success

\* C14: when interpretation, validation, retrieval, computation and
\* explanation all succeed, the run ends with success = true and the trace
\* is exactly interpret_query, validate_task, retrieve_data,
\* execute_analytics, generate_explanation, each completed, with no
\* handle_error entry.
C14_HappyPath ==
    ComputeSucceeded =>
        LET path == <<"interpret_query", "interpret_query", "validate_task",
                      "validate_task", "retrieve_data", "retrieve_data",
                      "execute_analytics", "execute_analytics",
                      "generate_explanation", "generate_explanation">>
            n == Len(execution_trace)
        IN  /\ n \in {8, 10}
            /\ StepNames = SubSeq(path, 1, n)
            /\ \A k \in 1..4 : execution_trace[2 * k].status = "completed"
            /\ pc = IF n = 8 THEN "generate_explanation" ELSE "END"
            /\ collab["explain_results"].r = "returned" =>
                   /\ pc = "END"
                   /\ success = TRUE
                   /\ n = 10
                   /\ execution_trace[10].status = "completed"

C14_Witness ==
    /\ ComputeSucceeded
    /\ collab["explain_results"].r = "returned"
    /\ pc = "END"
    /\ success = TRUE

\* the model's output parsed to a well-formed specification, confidently,
\* whose only fault is a location that is not in the catalog
UnknownLocationParsed ==
    /\ collab["generate_intent"] # NotCalled
    /\ collab["generate_intent"].g = "parsed"
    /\ collab["generate_intent"].confident
    /\ InSeq(collab["generate_intent"].spec.sensor_type, SystemContext.available_sensors)
    /\ collab["generate_intent"].spec.end_time <= SystemContext.time_range[2]
    /\ ~InSeq(collab["generate_intent"].spec.location.s, SystemContext.available_locations)

\* C15: when the model's output parses to a well-formed specification whose
\* location is not in the catalog, interpret_query completes, validate_task
\* is the step that fails, and the run reaches handle_error with success =
\* false, non-empty validation_errors, a last trace entry handle_error
\* 'completed' and a non-empty error_explanation.
C15_Claim ==
    UnknownLocationParsed =>
        /\ execution_trace[2].step = "interpret_query"
        /\ execution_trace[2].status = "completed"
        /\ Len(execution_trace) >= 4 =>
               /\ execution_trace[4].step = "validate_task"
               /\ execution_trace[4].status = "failed"
        /\ pc \in {"validate_task", "handle_error", "END"}
        /\ pc = "END" =>
               /\ success = FALSE
               /\ validation_errors # <<>>
               /\ LastEntry.step = "handle_error"
               /\ LastEntry.status = "completed"
               /\ Truthy(error_explanation)

\* ------------------------------------------------ properties of the parser
ParseFinished == parser_pc \in {"returned", "raised"}

\* the raw text has no "{" followed later by a "}"
NoBracePair(text) ==
    ~\E i \in DOMAIN text, k \in DOMAIN text :
        i < k /\ text[i] = "{" /\ text[k] = "}"

\* C16: for every raw text with no '{' followed later by a '}', including
\* texts where a '}' occurs only before the first '{', parse fails with
\* the no-structured-payload failure, not the malformed-payload failure.
C16_Claim ==
    (ParseFinished /\ NoBracePair(llm_output)) =>
        /\ parser_pc = "raised"
        /\ parse_result.prefix # "Invalid JSON in LLM output: "
        /\ parse_result.cause = "No JSON object found in LLM output"

\* the raw text is a JSON object, bare or fenced, that decodes to members
DecodesToMembers == llm_output \in {PlainOutput, FencedOutput}

\* C17: normalization maps operation 'avg' and 'average' to 'mean' and each
\* of the aggregation-level values 'none', 'null', 'n/a', 'na' and '' to
\* absent, so that a payload whose aggregation_level is '' still parses to
\* a specification with no aggregation level.
C17_Claim ==
    (ParseFinished /\ DecodesToMembers) =>
        LET n == normalize_data(members)
        IN  /\ (n.exc = NoneStr /\ members.operation \in {JStr("avg"), JStr("average")}) =>
                   n.data.operation = JStr("mean")
            /\ (n.exc = NoneStr /\ members.aggregation_level \in
                    {JStr("none"), JStr("null"), JStr("n/a"), JStr("na"), JStr("")}) =>
                   n.data.aggregation_level = JNull
            /\ members = [BaseMembers EXCEPT !.aggregation_level = JStr("")] =>
                   /\ parser_pc = "returned"
                   /\ parse_result.spec.aggregation_level = NoneStr

\* number of locations a specification names
LocationCount(spec) == IF spec.location.j = "str" THEN 1 ELSE Len(spec.location.l)

\* intent/location arity: two or more locations for a comparison, exactly
\* one for a query or an aggregation
ArityConsistent(spec) ==
    IF spec.intent_type = "comparison"
    THEN LocationCount(spec) >= 2
    ELSE LocationCount(spec) = 1

\* aggregation_level is present only for an aggregation
AggregationLevelConsistent(spec) ==
    spec.aggregation_level # NoneStr => spec.intent_type = "aggregation"

\* all invariants of the data model
DataModelInvariants(spec) ==
    /\ spec.intent_type \in IntentTypes
    /\ spec.operation \in Operations
    /\ spec.aggregation_level \in AggregationLevelValues \cup {NoneStr}
    /\ ArityConsistent(spec)
    /\ AggregationLevelConsistent(spec)
    /\ spec.end_time > spec.start_time
    /\ spec.confidence >= 0 /\ spec.confidence <= 100

\* C18: parse is total: for every raw text and every decoded payload it
\* either returns a TaskSpecification satisfying all data-model invariants
\* or raises LLMParseError; nothing else escapes.
C18_Claim ==
    ParseFinished =>
        \/ parse_result.r = "LLMParseError"
        \/ /\ parse_result.r = "returned"
           /\ DataModelInvariants(parse_result.spec)

\* C19: every successfully constructed TaskSpecification satisfies the
\* intent/location arity: a comparison has two or more locations, a query
\* or an aggregation exactly one; any other construction fails.
C19_Claim == parser_pc = "returned" => ArityConsistent(parse_result.spec)

\* C20: in every successfully constructed TaskSpecification the
\* aggregation_level is present only when the intent is aggregation; a
\* query or comparison carrying hourly/daily/weekly is rejected.
C20_Claim == parser_pc = "returned" => AggregationLevelConsistent(parse_result.spec)

\* C21: every successfully constructed TaskSpecification has end_time
\* strictly after start_time and confidence within [0.0, 1.0]; construction
\* with end_time <= start_time or with confidence outside the bounds fails,
\* and the boundary values 0.0 and 1.0 are accepted.
C21_TimeAndConfidence ==
    (ParseFinished /\ DecodesToMembers /\ normalize_data(members).exc = NoneStr) =>
        LET n == normalize_data(members).data
        IN  /\ parser_pc = "returned" =>
                  /\ parse_result.spec.end_time > parse_result.spec.start_time
                  /\ parse_result.spec.confidence >= 0
                  /\ parse_result.spec.confidence <= 100
            /\ (/\ n.start_time.j = "datetime"
                /\ n.end_time.j = "datetime"
                /\ n.end_time.t <= n.start_time.t) =>
                  /\ parser_pc = "raised"
                  /\ "end_time must be after start_time" \in parse_result.errors
            /\ (n.confidence.n < 0 \/ n.confidence.n > 100) =>
                  /\ parser_pc = "raised"
                  /\ "confidence" \in parse_result.errors
            /\ members \in {[BaseMembers EXCEPT !.confidence = JNum(0)],
                            [BaseMembers EXCEPT !.confidence = JNum(100)]} =>
                  parser_pc = "returned"

C21_Witness ==
    /\ parser_pc = "raised"
    /\ DecodesToMembers
    /\ members.start_time = JStr("2024-01-01T00:00:00")
    /\ members.end_time = members.start_time
    /\ "end_time must be after start_time" \in parse_result.errors

\* ------------------------------------------- properties of the repository
\* the sensors of every node of the list whose listSensor succeeds, in node
\* order, each with its node's location
RECURSIVE SucceededSensors(_, _)
SucceededSensors(nodes, answers) ==
    IF nodes = <<>> THEN <<>>
    ELSE LET node == Head(nodes)
             answer == answers[node.node_id]
         IN  (IF answer.kind = "list"
              THEN [k \in DOMAIN answer.items |->
                       [answer.items[k] EXCEPT !.location = node.location]]
              ELSE <<>>)
             \o SucceededSensors(Tail(nodes), answers)

\* a call whose operation is over and that no clear_cache overlapped
Finished(t, op) ==
    /\ calls[t].pc = "done"
    /\ calls[t].op = op
    /\ ~calls[t].cleared_during

\* the sensors of the requested type whose human-readable location equals
\* the requested one, case-insensitively
ExactMatches(sensors, req) ==
    {k \in DOMAIN sensors :
        /\ normalize_sensor_type(sensors[k].sensor_type) = req.sensor_type
        /\ Lower(get_human_readable_location(sensors[k].location)) = Lower(req.location)}

\* C22: _find_sensor applies its match rules in priority order over the
\* whole catalog: when a sensor of the requested type matches the location
\* exactly (case-insensitively), the earliest-registered such sensor is
\* returned even if sensors matching only by substring come earlier.
C22_Claim ==
    \A t \in Callers :
        (/\ Finished(t, "find_sensor")
         /\ calls[t].result.kind = "returned"
         /\ upstream.nodes.kind = "list") =>
            LET sensors == SucceededSensors(upstream.nodes.items, upstream.sensors)
                exact == ExactMatches(sensors, calls[t].arg)
            IN  exact # {} =>
                    calls[t].result.value =
                        sensors[CHOOSE k \in exact : \A m \in exact : k <= m]

\* the operations that list the sensors
SensorOps == {"get_available_sensors", "find_sensor"}

\* C23: once a listing has succeeded on a repository, every later listing
\* call returns the cached result without calling the API again, as long as
\* no clear_cache intervenes; a node listing that fails leaves the cache
\* unpopulated.
C23_Memoized ==
    /\ \A t \in Callers :
        /\ (calls[t].nodes_cached_at_call /\ ~calls[t].cleared_during) =>
               ~calls[t].listed_nodes
        /\ (calls[t].sensors_cached_at_call /\ ~calls[t].cleared_during) =>
               /\ ~calls[t].listed_sensors
               /\ calls[t].op \in SensorOps => ~calls[t].listed_nodes
        /\ (/\ Finished(t, "get_available_locations")
            /\ calls[t].nodes_cached_at_call
            /\ nodes_cache # None) =>
               calls[t].result = Returned(available_locations(nodes_cache.items))
        /\ (/\ Finished(t, "get_available_sensors")
            /\ calls[t].sensors_cached_at_call
            /\ sensors_cache # None) =>
               calls[t].result = Returned(available_sensors(sensors_cache.items))
    /\ upstream.nodes.kind = "raised" => nodes_cache = None /\ sensors_cache = None

C23_Witness ==
    \E t \in Callers :
        /\ Finished(t, "get_available_locations")
        /\ calls[t].nodes_cached_at_call
        /\ ~calls[t].listed_nodes
        /\ calls[t].result.kind = "returned"
        /\ calls[t].result.value # {}

\* C24: while the sensors of all nodes are listed, a failure of the fetch
\* for one node never aborts the listing, whatever its kind: the result
\* holds exactly the sensors of the nodes whose fetch succeeded, in node
\* order, and nothing is raised to the caller.
C24_Claim ==
    \A t \in Callers :
        (/\ calls[t].pc = "done"
         /\ calls[t].op \in SensorOps
         /\ ~calls[t].cleared_during
         /\ upstream.nodes.kind = "list") =>
            /\ calls[t].result.kind = "returned"
            /\ calls[t].op = "get_available_sensors" =>
                   calls[t].result.value =
                       available_sensors(
                           SucceededSensors(upstream.nodes.items, upstream.sensors))

\* C25: clear_cache drops the memoized nodes and sensors, so the next
\* listing fetches again, and with an unchanged API the sets that
\* get_available_sensors and get_available_locations return after a clear
\* and a new fill equal those returned before.
C25_ClearAndRefill ==
    /\ [][\A t \in Callers :
            /\ (calls[t].pc = "clear_nodes" /\ calls'[t].pc = "clear_sensors") =>
                   nodes_cache' = None
            /\ (calls[t].pc = "clear_sensors" /\ calls'[t].pc = "done") =>
                   sensors_cache' = None]_vars
    /\ [](\A t \in Callers :
            /\ (/\ Finished(t, "clear_cache")
                /\ \A u \in Callers \ {t} : calls[u].pc = "idle") =>
                   nodes_cache = None /\ sensors_cache = None
            /\ (/\ Finished(t, "get_available_locations")
                /\ calls[t].result.kind = "returned") =>
                   /\ calls[t].result.value = available_locations(upstream.nodes.items)
                   \* the listing that filled the slot again after u cleared it
                   /\ \A u \in Callers \ {t} :
                          (/\ Finished(u, "clear_cache")
                           /\ ~calls[t].nodes_cached_at_call
                           /\ nodes_cache # None) =>
                              calls[t].listed_nodes
            /\ (/\ Finished(t, "get_available_sensors")
                /\ calls[t].result.kind = "returned") =>
                   calls[t].result.value =
                       available_sensors(
                           SucceededSensors(upstream.nodes.items, upstream.sensors)))

\* a populated cache was cleared by u and then filled again by t
C25_Witness ==
    \E t \in Callers, u \in Callers :
        /\ Finished(u, "clear_cache")
        /\ calls[u].sensors_cached_at_call
        /\ Finished(t, "get_available_sensors")
        /\ ~calls[t].sensors_cached_at_call
        /\ calls[t].listed_nodes
        /\ calls[t].listed_sensors
        /\ calls[t].result.kind = "returned"
        /\ calls[t].result.value # {}
        /\ sensors_cache # None

\* C26: when the node listing fails upstream, so that no data at all can be
\* obtained, get_available_sensors, get_available_locations and
\* _find_sensor surface the failure as RepositoryError, never as the raw
\* upstream error.
C26_Claim ==
    \A t \in Callers :
        (/\ calls[t].pc = "done"
         /\ calls[t].op # "clear_cache"
         /\ upstream.nodes.kind = "raised") =>
            /\ calls[t].result.kind = "raised"
            /\ calls[t].result.exc = "RepositoryError"

\* C27: when two runs race to fill the same empty cache slot, every write
\* stores an equal value: the cache content and the list returned to each
\* racing caller equal what a single uncontended fill would have produced
\* from the unchanged API.
C27_IdempotentFill ==
    /\ nodes_cache # None => nodes_cache = upstream.nodes
    /\ sensors_cache # None =>
           sensors_cache =
               List(SucceededSensors(upstream.nodes.items, upstream.sensors))
    /\ \A t \in Callers :
        /\ calls[t].nodes # None => calls[t].nodes = upstream.nodes
        /\ calls[t].got_sensors # None =>
               calls[t].got_sensors =
                   List(SucceededSensors(upstream.nodes.items, upstream.sensors))

\* both callers found the sensors slot empty and fetched; one has written
\* and returned, the other is about to write
C27_Witness ==
    \E t \in Callers, u \in Callers :
        /\ calls[t].pc = "sensors_store"
        /\ calls[t].sensors # <<>>
        /\ calls[u].pc = "derive"
        /\ calls[u].listed_sensors
        /\ calls[u].got_sensors # None
        /\ ~calls[t].cleared_during
        /\ ~calls[u].cleared_during

\* ------------------------------------------- properties of the validators
\* an error of the list carries the text
HasError(errors, text) == \E i \in DOMAIN errors : errors[i].text = text

\* how many errors of the list carry the text
CountErrors(errors, text) == Cardinality({i \in DOMAIN errors : errors[i].text = text})

\* the locations of the specification that are not in the catalog, in order
MissingLocations(spec, repository) ==
    SelectSeq(get_locations_list(spec),
              LAMBDA loc : ~InSeq(loc, repository.available_locations))

UnknownSensor(spec, repository) == ~InSeq(spec.sensor_type, repository.available_sensors)
StartTooEarly(spec, repository) == spec.start_time < repository.time_range[1]
EndTooLate(spec, repository) == spec.end_time > repository.time_range[2]

\* how many of the two boolean conditions hold
Violations(cs) == Cardinality({i \in DOMAIN cs : cs[i]})

ValidInCatalog(spec, repository) ==
    /\ ~UnknownSensor(spec, repository)
    /\ MissingLocations(spec, repository) = <<>>
    /\ ~StartTooEarly(spec, repository)
    /\ ~EndTooLate(spec, repository)

\* C29: validation returns the empty list exactly when the sensor type is
\* available, every location is available, the start is not before the
\* earliest timestamp and the end is not after the latest one; this is
\* stated of LLMDataBridge.validate_task and of validate_against_context.
C29_Claim ==
    /\ task_errors # None =>
           (task_errors.items = <<>> <=> ValidInCatalog(checked.task_spec, checked.repository))
    /\ context_errors # None =>
           (context_errors.items = <<>> <=> ValidInCatalog(checked.task_spec, checked.repository))

\* C30: for a specification with several locations of which at least one
\* is missing from the catalog, validate_task returns exactly one location
\* error, which names all the missing locations, and reports each other
\* violated rule exactly once.
C30_Claim ==
    (/\ task_errors # None
     /\ Len(get_locations_list(checked.task_spec)) >= 2
     /\ MissingLocations(checked.task_spec, checked.repository) # <<>>) =>
        LET spec == checked.task_spec
            repository == checked.repository
            errors == task_errors.items
            once(c, text) == CountErrors(errors, text) = (IF c THEN 1 ELSE 0)
        IN  /\ CountErrors(errors, "Unknown location") = 1
            /\ \A i \in DOMAIN errors :
                   errors[i].text = "Unknown location" =>
                       \A k \in DOMAIN MissingLocations(spec, repository) :
                           MissingLocations(spec, repository)[k] = errors[i].value
            /\ once(UnknownSensor(spec, repository), "Unknown sensor type")
            /\ once(StartTooEarly(spec, repository), "Start time is before available data")
            /\ once(EndTooLate(spec, repository), "End time is after available data")

\* ------------------------------------------------ properties of the tools
\* two quotients are the same number
SameNumber(a, b) == a.den # 0 /\ b.den # 0 /\ a.num * b.den = b.num * a.den

\* C31: on a DataFrame with the required columns and at least one row the
\* temporal_mean tool returns the minimum for 'min', the maximum for 'max'
\* and the mean for 'mean' or no operation, records the operation in its
\* metadata, and returns success = false with an 'Invalid operation'
\* message for any other operation.
C31_Claim ==
    (/\ tool_result # None
     /\ {"timestamp", "value", "unit"} \subseteq tool_args.frame.columns
     /\ tool_args.frame.values # <<>>) =>
        LET values == tool_args.frame.values
            operation == IF tool_args.operation = NoneStr THEN "mean" ELSE tool_args.operation
        IN  /\ tool_result.r = "returned"
            /\ IF operation \in {"mean", "min", "max"}
               THEN /\ tool_result.success
                    /\ SameNumber(tool_result.value,
                                  CASE operation = "mean" -> Mean(values)
                                    [] operation = "min" -> Quotient(SeqMin(values), 1)
                                    [] operation = "max" -> Quotient(SeqMax(values), 1))
                    /\ "operation" \in DOMAIN tool_result.metadata
               ELSE /\ ~tool_result.success
                    /\ tool_result.error_message # <<>>
                    /\ tool_result.error_message[1] = "Invalid operation"

\* C34: when execute_analytics looks up the tool for the operation of the
\* specification, the registry's operation table has one, so the step
\* never fails with "No tool found for operation".
C34_Claim ==
    collab["tool"] # NotCalled =>
        /\ get_tool_by_operation(task_spec.operation) # NoneStr
        /\ collab["tool"].r # "no_tool"

\* C32: a node is entered only with its required prior outputs present:
\* retrieve_data with a task specification and no errors, execute_analytics
\* with retrieved rows and no errors, generate_explanation with an
\* analytics result and no errors.
C32_EntryPreconditions ==
    /\ pc = "retrieve_data" => task_spec # None /\ validation_errors = <<>>
    /\ pc = "execute_analytics" =>
           /\ data # None
           /\ data.rows # <<>>
           /\ validation_errors = <<>>
    /\ pc = "generate_explanation" => analytics_result # None /\ validation_errors = <<>>

\* the run is about to enter generate_explanation
C32_Witness ==
    /\ pc = "generate_explanation"
    /\ HasStep("retrieve_data")
    /\ HasStep("execute_analytics")
    /\ analytics_result # None

\* C33: within a run interpret_query writes the task specification at most
\* once, into an unset field; every other node leaves it unchanged, and no
\* node changes user_query.
C33_WrittenOnce ==
    [][(pc \in NodeNames) =>
          (/\ user_query' = user_query
           /\ pc # "interpret_query" => task_spec' = task_spec
           /\ (pc = "interpret_query" /\ task_spec' # task_spec) => task_spec = None)]_vars

\* a run that ended through handle_error after its specification was written
C33_Witness ==
    /\ pc = "END"
    /\ task_spec # None
    /\ HasStep("validate_task")
    /\ HasStep("handle_error")

\* C35: a sensor type and a location that validation accepts against the
\* catalog (the type is in get_available_sensors, the location in
\* get_available_locations) always give a sensor in _find_sensor on the
\* same catalog, so get_readings does not raise "No sensor found".
C35_Claim ==
    \A t \in Callers :
        (/\ Finished(t, "find_sensor")
         /\ calls[t].result.kind = "returned"
         /\ upstream.nodes.kind = "list"
         /\ calls[t].arg.sensor_type \in
                available_sensors(SucceededSensors(upstream.nodes.items, upstream.sensors))
         /\ calls[t].arg.location \in available_locations(upstream.nodes.items)) =>
            calls[t].result.value # None

\* C36: the two validators agree on validity. On the same specification
\* and catalog LLMDataBridge.validate_task returns no errors exactly when
\* validate_against_context returns none.
C36_Claim ==
    (task_errors # None /\ context_errors # None) =>
        (task_errors.items = <<>> <=> context_errors.items = <<>>)

\* C37: in every final state exactly one of explanation and
\* error_explanation is set (not None) and it matches the success flag:
\* success gives explanation and no error_explanation, failure gives
\* error_explanation and no explanation; end_time is set in both cases.
C37_ExactlyOne ==
    pc = "END" =>
        /\ success => explanation # None /\ error_explanation = None
        /\ ~success => error_explanation # None /\ explanation = None
        /\ end_time

\* a failed run whose error explanation came from the last-resort handler
C37_Witness ==
    /\ pc = "END"
    /\ ~success
    /\ collab["explain_error"] # NotCalled
    /\ collab["explain_error"].r = "exception"
    /\ error_explanation = FixedSentence

\* C38: a listing call (_get_all_nodes, _get_all_sensors) hands a list to
\* its caller, never the unset value of the slot, also when clear_cache
\* runs between the fill and the return.
C38_Claim ==
    \A t \in Callers :
        calls[t].pc = "derive" =>
            /\ calls[t].op = "get_available_locations" => calls[t].nodes # None
            /\ calls[t].op \in SensorOps => calls[t].got_sensors # None

\* ----------------------------------------------- properties of the client
\* what the attempts of the call in progress have met so far
AttemptsSafe ==
    /\ Len(request.log) <= max_retries
    /\ \A k \in 1..(Len(request.log) - 1) : request.log[k].kind = "transport"
    /\ request.pc = "request" =>
           \A k \in DOMAIN request.log : request.log[k].kind = "transport"
    /\ (request.pc = "done" /\ request.made # None) =>
           LET n == Len(request.log)
           IN  /\ request.made = Returned("root") <=> (n > 0 /\ request.log[n].kind = "ok")
               /\ (n > 0 /\ request.log[n].kind = "api_error") =>
                      request.made = Raised("SMTAPIError")
               /\ (n = max_retries /\ \A k \in 1..n : request.log[k].kind = "transport") =>
                      request.made = Raised("SMTAPIError")
               /\ n = 0 => max_retries = 0

====
